---- MODULE Spec2Model ----
(***************************************************************************)
(* The multi-peer tool-protocol layer of rai (mcp_client.py), the dispatch *)
(* router of the agent (rai.py) and the entry points that drive them       *)
(* (rai.py main, rai-shell.py RAIShell.run, rai-tui.py RAITUI).            *)
(*                                                                         *)
(* A peer is a child process.  Its stdin and stdout are modelled as two    *)
(* queues of lines; what the peer answers is the environment's choice.     *)
(* _send_request is modelled statement by statement, because RAITUI runs a *)
(* second thread (update_stats_worker) through the same MCPServer objects  *)
(* with no lock: the threads may be switched between any two statements.   *)
(***************************************************************************)
EXTENDS Integers, Sequences, FiniteSets, TLC

\* ------------------------------------------------------------------ bounds
\* Foreground queries one run processes (REPL / TUI; the one-shot CLI takes 1).
MaxQueries == 2
\* Tool calls the TUI's background stats updater starts in one run.
MaxStatsCalls == 1
\* Environment faults in one run: a peer that exits, closes its stdout, hangs,
\* writes a line that answers no request, fails to spawn or ignores SIGTERM.
MaxFaults == 1

\* MCPClient methods invoked by a caller that uses the class directly.
MaxApiCalls == 4

\* Words in a generated query.
MaxWords == 2

\* classify calls in one session.
MaxClassifyCalls == 3

\* Lines a bundled server reads from its stdin in one run.
MaxLines == 2

\* ------------------------------------------------------- program constants
\* A line without an "id" member (a notification) or with "id": null.
NoId == 0

\* The add_server calls of ROCmCLIAgent.initialize, in program order.
ConfiguredPeers == <<"filesystem", "rocm", "linux", "atomic", "ublue">>

\* The add_server calls guarded by `if <path>.exists()`.
OptionalPeers == {"linux", "atomic", "ublue"}

\* The peers whose program is not part of this repository: the filesystem
\* server fetched by npx and the separately installed linux-mcp-server.  The
\* bundled servers (rocm, atomic, ublue) print nothing but responses.
ExternalPeers == {"filesystem", "linux"}

\* The installations considered: atomic_server.py and ublue_server.py lie
\* beside rai.py in the repository, linux-mcp-server may or may not be
\* installed in ~/.local/bin.
Installations == {f \in [OptionalPeers -> BOOLEAN] : f["atomic"] /\ f["ublue"]}

Peers == {ConfiguredPeers[i] : i \in DOMAIN ConfiguredPeers}

\* The main thread (the asyncio event loop) and RAITUI's stats thread.
MainThread == "main"

StatsThread == "stats"

Threads == {MainThread, StatsThread}

\* The three calls of RAIStats.update_from_agent, in order, all on "rocm".
StatsCalls == <<"get_vram", "get_gpu_temp", "get_gpu_stats">>

NoIntent == [category |-> "none", action |-> "none"]

\* The (category, action) pairs IntentClassifier.PATTERNS can produce, in
\* table order; the first git entry takes its action from the matched verb.
PatternIntents ==
    {[category |-> "gpu", action |-> a] : a \in {"vram", "temp", "stats"}}
    \cup {[category |-> "git", action |-> a] :
            a \in {"status", "st", "diff", "log", "commit"}}
    \cup {[category |-> "atomic", action |-> a] :
            a \in {"ostree_status", "check_updates", "layered_packages",
                   "flatpaks", "flatpak_updates", "toolboxes"}}
    \cup {[category |-> "file", action |-> a] :
            a \in {"read", "write", "list", "search"}}
    \cup {[category |-> "system", action |-> a] :
            a \in {"memory", "disk", "service_status", "logs",
                   "list_services", "processes"}}
    \cup {[category |-> "build", action |-> a] : a \in {"ninja", "cmake"}}
    \cup {[category |-> "package", action |-> a] : a \in {"check", "info"}}
    \cup {[category |-> "process", action |-> "list"],
          [category |-> "network", action |-> "port_check"]}

\* What classify(query) can return: an Intent of the table, or None.
QueryInputs == PatternIntents \cup {NoIntent}

ToolRoute(p, t) == [kind |-> "tool", peer |-> p, tool |-> t]

LlmRoute == [kind |-> "llm", peer |-> "none", tool |-> "none"]

FixedTextRoute == [kind |-> "fixed", peer |-> "none", tool |-> "none"]

NoRoute == [kind |-> "none", peer |-> "none", tool |-> "none"]

\* _handle_file_intent: three actions reach the filesystem peer; any other
\* falls through to `return "File operation not implemented yet"`.
HandleFileIntent(a) ==
    CASE a = "read"   -> ToolRoute("filesystem", "read_file")
      [] a = "list"   -> ToolRoute("filesystem", "list_directory")
      [] a = "search" -> ToolRoute("filesystem", "search_files")
      [] OTHER        -> FixedTextRoute

\* A _handle_gpu_intent that asks for the temperature under another name.
HandleGpuIntentRenamed(a) ==
    CASE a = "stats" -> ToolRoute("rocm", "get_gpu_stats")
      [] a = "vram"  -> ToolRoute("rocm", "get_vram")
      [] a = "temp"  -> ToolRoute("rocm", "get_gpu_temperature")
      [] OTHER       -> ToolRoute("rocm", "get_gpu_stats")

\* _handle_gpu_intent: every action reaches the rocm peer (else: full stats).
HandleGpuIntent(a) ==
    CASE a = "stats" -> ToolRoute("rocm", "get_gpu_stats")
      [] a = "vram"  -> ToolRoute("rocm", "get_vram")
      [] a = "temp"  -> ToolRoute("rocm", "get_gpu_temp")
      [] OTHER       -> ToolRoute("rocm", "get_gpu_stats")

\* _handle_system_intent: six actions reach the linux peer, the rest the LLM.
HandleSystemIntent(a) ==
    CASE a = "memory"         -> ToolRoute("linux", "get_memory_information")
      [] a = "disk"           -> ToolRoute("linux", "get_disk_usage")
      [] a = "service_status" -> ToolRoute("linux", "get_service_status")
      [] a = "list_services"  -> ToolRoute("linux", "list_services")
      [] a = "processes"      -> ToolRoute("linux", "list_processes")
      [] a = "logs"           -> ToolRoute("linux", "get_journal_logs")
      [] OTHER                -> LlmRoute

\* _handle_atomic_intent: six actions reach the atomic peer, the rest the LLM.
HandleAtomicIntent(a) ==
    CASE a = "ostree_status"    -> ToolRoute("atomic", "get_rpm_ostree_status")
      [] a = "check_updates"    -> ToolRoute("atomic", "check_rpm_ostree_updates")
      [] a = "layered_packages" -> ToolRoute("atomic", "list_layered_packages")
      [] a = "flatpaks"         -> ToolRoute("atomic", "list_flatpaks")
      [] a = "flatpak_updates"  -> ToolRoute("atomic", "get_flatpak_updates")
      [] a = "toolboxes"        -> ToolRoute("atomic", "list_toolboxes")
      [] OTHER                  -> LlmRoute

\* _handle_ublue_intent: eleven actions reach the ublue peer, the rest the LLM.
HandleUblueIntent(a) ==
    CASE a = "image_info"             -> ToolRoute("ublue", "get_image_info")
      [] a = "image_updates"          -> ToolRoute("ublue", "check_image_updates")
      [] a = "build_type"             -> ToolRoute("ublue", "check_build_type")
      [] a = "list_recipes"           -> ToolRoute("ublue", "list_ujust_recipes")
      [] a = "run_recipe"             -> ToolRoute("ublue", "run_ujust_recipe")
      [] a = "gaming_status"          -> ToolRoute("ublue", "get_gaming_status")
      [] a = "build_tools"            -> ToolRoute("ublue", "check_build_tools")
      [] a = "list_images"            -> ToolRoute("ublue", "list_container_images")
      [] a = "containerfile_template" -> ToolRoute("ublue", "get_containerfile_template")
      [] a = "github_workflow"        -> ToolRoute("ublue", "get_github_workflow_template")
      [] OTHER                        -> LlmRoute

\* process_query and _execute_intent: None goes to the LLM, an Intent to the
\* handler of its category, a category without a handler to the LLM.
ExecuteIntent(i) ==
    CASE i = NoIntent          -> LlmRoute
      [] i.category = "file"   -> HandleFileIntent(i.action)
      [] i.category = "gpu"    -> HandleGpuIntent(i.action)
      [] i.category = "git"    -> LlmRoute
      [] i.category = "system" -> HandleSystemIntent(i.action)
      [] i.category = "atomic" -> HandleAtomicIntent(i.action)
      [] i.category = "ublue"  -> HandleUblueIntent(i.action)
      [] OTHER                 -> LlmRoute

\* The catalog a peer advertises in its tools/list result.  The bundled
\* servers' catalogs are their own tables; filesystem and linux are external
\* programs, listed here with the tools the router calls on them.
Catalog(p) ==
    CASE p = "rocm" ->
           <<"get_vram", "get_gpu_temp", "get_gpu_stats", "get_rocm_version",
             "get_hip_version", "rocminfo", "get_gpu_utilization">>
      [] p = "atomic" ->
           <<"get_rpm_ostree_status", "check_rpm_ostree_updates",
             "list_layered_packages", "list_flatpaks", "get_flatpak_updates",
             "list_toolboxes", "get_ostree_info">>
      [] p = "ublue" ->
           <<"get_image_info", "check_image_updates", "check_build_type",
             "get_build_info", "list_ujust_recipes", "run_ujust_recipe",
             "get_ujust_info", "get_gaming_status", "check_build_tools",
             "list_container_images", "get_containerfile_template",
             "get_github_workflow_template">>
      [] p = "filesystem" ->
           <<"read_file", "list_directory", "search_files">>
      [] OTHER ->
           <<"get_memory_information", "get_disk_usage", "get_service_status",
             "list_services", "list_processes", "get_journal_logs">>

\* ------------------------------------------------------------------- state
VARIABLES
    entry,       \* the entry point running: "cli", "shell" or "tui"
    exists,      \* per optional peer: does its executable exist on disk
    phase,       \* where the main thread is in the entry point
    k,           \* initialize: index of the next add_server; stop_all: loop index
    hs,          \* MCPServer.start: the handshake step in progress
    servers,     \* MCPClient.servers, a dict: its keys in insertion order
    process,     \* MCPServer.process per peer: "none" or "popen"
    request_id,  \* MCPServer._request_id per peer
    tools,       \* MCPServer.tools per peer
    peer,        \* the child process: unspawned, alive, hung, eof, exited
    stdin,       \* lines written to the child and not yet consumed by it
    stdout,      \* lines written by the child and not yet read
    sent,        \* history: the ids of the requests written to a peer, in order
    wrote,       \* history: the methods of the lines written to a peer, in order
    lost,        \* history: peers on which a tools/call ended disconnected
    failed,      \* history, kept under SpecShell: peers whose latest tools/call
                 \* ended with the remote-tool error
    faults,      \* environment faults so far
    pc,          \* per thread: the statement of _send_request it is at
    call,        \* per thread: the locals of its _send_request invocation
    ret,         \* per thread: how its _send_request ended
    route,       \* the (peer, tool) or LLM route of the query in progress
    qres,        \* how process_query ended
    llmReqs,     \* LLM requests made by the query in progress
    toolReqs,    \* history: tools/call lines written by the query in progress
    llmOutcome,  \* how the LLM request of the query in progress went
    nq,          \* queries started
    ns,          \* tool calls started by the stats thread
    statsStep,   \* update_from_agent: index of the next call in StatsCalls
    termReq,     \* per peer: process.terminate() has been called
    stopRaised,  \* stop_all was left by an exception
    initFailed,  \* the peer whose add_server raised, or "none"
    ops,         \* history: the MCPClient methods a caller has invoked, in order
    found,       \* what the last find_tool returned
    spawned,     \* history: per name, the subprocess.Popen calls made for it
    signals,     \* history: per name, the SIGTERMs delivered to its child
    query,       \* the argument of the classify call being made
    calls,       \* history: the classify calls made, each with what it returned
    server,      \* the bundled server whose run loop is running, or "none"
    serving,     \* its run loop: "running", "ended" or "crashed"
    served,      \* history: the lines run has read from stdin, in order
    out,         \* the lines run has printed, each with the line it answers
    intent       \* the Intent _execute_intent has been called with

vars == <<entry, exists, phase, k, hs, servers, process, request_id, tools,
          peer, stdin, stdout, sent, wrote, lost, failed, faults, pc, call, ret,
          route,
          qres, llmReqs, toolReqs, llmOutcome, nq, ns, statsStep, termReq,
          stopRaised,
          initFailed, ops, found, spawned, signals, query, calls, server,
          serving, served, out, intent>>

clientVars == <<servers, process, request_id, tools>>

wireVars == <<peer, stdin, stdout, sent, wrote, lost, failed, faults>>

threadVars == <<pc, call, ret>>

queryVars == <<route, qres, llmReqs, toolReqs, llmOutcome, nq>>

mainVars == <<entry, exists, phase, k, hs, termReq, stopRaised, initFailed>>

statsVars == <<ns, statsStep>>

apiVars == <<ops, found, spawned, signals>>

classifierVars == <<query, calls>>
serverVars == <<server, serving, served, out>>
\* What the actions of the client and its callers leave alone.
asideVars == <<classifierVars, serverVars, intent>>

NoCall == [peer |-> "none", method |-> "none", tmp |-> NoId, rid |-> NoId]

NoRet == [status |-> "none", id |-> NoId, kind |-> "none", of |-> "none",
          content |-> <<>>]

NewCall(p, m) == [peer |-> p, method |-> m, tmp |-> NoId, rid |-> NoId]

Raised(s) == [status |-> s, id |-> NoId, kind |-> "none", of |-> "none",
              content |-> <<>>]

\* A line of a child's stdout.  kind: "result" or "error" for an object with
\* that member, "other" for an object with neither, "scalar" for JSON that is
\* not an object, "garbage" for text that is not JSON.  of: the method of the
\* request a result answers, which fixes the members of the result object.
\* content: the "content" array of a tools/call result.
Line(i, kd, m, c) == [id |-> i, kind |-> kd, of |-> m, content |-> c]

\* The content arrays a tools/call result may carry: sequences of blocks.
ContentArrays == {<<"b", "a">>}

\* The return value None of find_tool.
None == <<>>

\* The handshake of start(), as the methods of the lines written.
Handshake == <<"initialize", "initialized", "tools/list">>

\* A disconnected-class failure of _send_request: readline() returned '' or
\* the write hit a closed pipe.
Disconnected == {"closed", "broken_pipe"}

\* The value of `failed` in a specification that keeps no such history.
Untracked == {"none"}

\* MCPServer.__init__ for every peer; no process spawned, nothing registered.
\* f is the history of remote-tool errors to start from.
InitWith(E, f) ==
    /\ entry \in E
    /\ exists \in Installations
    /\ phase = "init"
    /\ k = 1
    /\ hs = "none"
    /\ servers = <<>>
    /\ process = [p \in Peers |-> "none"]
    /\ request_id = [p \in Peers |-> 0]
    /\ tools = [p \in Peers |-> <<>>]
    /\ peer = [p \in Peers |-> "unspawned"]
    /\ stdin = [p \in Peers |-> <<>>]
    /\ stdout = [p \in Peers |-> <<>>]
    /\ sent = [p \in Peers |-> <<>>]
    /\ wrote = [p \in Peers |-> <<>>]
    /\ lost = {}
    /\ failed = f
    /\ faults = 0
    /\ pc = [t \in Threads |-> "idle"]
    /\ call = [t \in Threads |-> NoCall]
    /\ ret = [t \in Threads |-> NoRet]
    /\ route = NoRoute
    /\ qres = "none"
    /\ llmReqs = 0
    /\ toolReqs = 0
    /\ llmOutcome = "none"
    /\ nq = 0
    /\ ns = 0
    /\ statsStep = 1
    /\ termReq = [p \in Peers |-> FALSE]
    /\ stopRaised = FALSE
    /\ initFailed = "none"
    /\ ops = <<>>
    /\ found = None
    /\ spawned = [p \in Peers |-> 0]
    /\ signals = [p \in Peers |-> 0]
    /\ query = ""
    /\ calls = <<>>
    /\ server = "none"
    /\ serving = "ended"
    /\ served = <<>>
    /\ out = <<>>
    /\ intent = NoIntent

InitEntry(E) == InitWith(E, Untracked)

Init == InitEntry({"cli", "shell"})

\* rai-shell.py alone, with the history of remote-tool errors kept.
InitShell == InitWith({"shell"}, {})

\* MCPClient() in a caller of its own, as in the demo main of mcp_client.py:
\* an empty registry, then the caller's method calls.
InitApi ==
    /\ entry = "api"
    /\ exists = [p \in OptionalPeers |-> TRUE]
    /\ phase = "api"
    /\ k = 1
    /\ hs = "none"
    /\ servers = <<>>
    /\ process = [p \in Peers |-> "none"]
    /\ request_id = [p \in Peers |-> 0]
    /\ tools = [p \in Peers |-> <<>>]
    /\ peer = [p \in Peers |-> "unspawned"]
    /\ stdin = [p \in Peers |-> <<>>]
    /\ stdout = [p \in Peers |-> <<>>]
    /\ sent = [p \in Peers |-> <<>>]
    /\ wrote = [p \in Peers |-> <<>>]
    /\ lost = {}
    /\ failed = Untracked
    /\ faults = 0
    /\ pc = [t \in Threads |-> "idle"]
    /\ call = [t \in Threads |-> NoCall]
    /\ ret = [t \in Threads |-> NoRet]
    /\ route = NoRoute
    /\ qres = "none"
    /\ llmReqs = 0
    /\ toolReqs = 0
    /\ llmOutcome = "none"
    /\ nq = 0
    /\ ns = 0
    /\ statsStep = 1
    /\ termReq = [p \in Peers |-> FALSE]
    /\ stopRaised = FALSE
    /\ initFailed = "none"
    /\ ops = <<>>
    /\ found = None
    /\ spawned = [p \in Peers |-> 0]
    /\ signals = [p \in Peers |-> 0]
    /\ query = ""
    /\ calls = <<>>
    /\ server = "none"
    /\ serving = "ended"
    /\ served = <<>>
    /\ out = <<>>
    /\ intent = NoIntent

InitTUI == InitEntry({"tui"})

\* ------------------------------------------------- MCPServer._send_request
\* `if not self.process or not self.process.stdin: raise RuntimeError`, then
\* the read half of `self._request_id += 1`.
SrLoad(t) ==
    /\ pc[t] = "sr_load"
    /\ IF process[call[t].peer] = "none"
         THEN /\ ret' = [ret EXCEPT ![t] = Raised("not_started")]
              /\ pc' = [pc EXCEPT ![t] = "sr_done"]
              /\ call' = call
         ELSE /\ call' = [call EXCEPT ![t].tmp = request_id[call[t].peer]]
              /\ pc' = [pc EXCEPT ![t] = "sr_store"]
              /\ ret' = ret
    /\ UNCHANGED <<clientVars, wireVars, queryVars, mainVars, statsVars, asideVars, apiVars>>

\* The write half of `self._request_id += 1`.
SrStore(t) ==
    /\ pc[t] = "sr_store"
    /\ request_id' = [request_id EXCEPT ![call[t].peer] = call[t].tmp + 1]
    /\ pc' = [pc EXCEPT ![t] = "sr_build"]
    /\ UNCHANGED <<servers, process, tools, wireVars, call, ret, queryVars,
                   mainVars, statsVars, asideVars, apiVars>>

\* `request = {..., "id": self._request_id, ...}`: the attribute is read again.
SrBuild(t) ==
    /\ pc[t] = "sr_build"
    /\ call' = [call EXCEPT ![t].rid = request_id[call[t].peer]]
    /\ pc' = [pc EXCEPT ![t] = "sr_write"]
    /\ UNCHANGED <<clientVars, wireVars, ret, queryVars, mainVars, statsVars, asideVars, apiVars>>

\* The history of disconnected tools/call, extended by the call of thread t.
LostBy(t) ==
    IF call[t].method = "tools/call" THEN lost \cup {call[t].peer} ELSE lost

\* The child's stdin no longer has a reader: write/flush raise BrokenPipeError.
PipeBroken(p) == peer[p] = "exited"

\* The tools/call lines of the query in progress, once thread t has written
\* the line of its call: process_query runs on the main thread.
ToolReqsAfter(t) ==
    IF t = MainThread /\ phase = "query" /\ call[t].method = "tools/call"
      THEN toolReqs + 1
      ELSE toolReqs

\* `self.process.stdin.write(request_json); self.process.stdin.flush()`.
SrWrite(t) ==
    /\ pc[t] = "sr_write"
    /\ LET p == call[t].peer IN
         IF PipeBroken(p)
           THEN /\ ret' = [ret EXCEPT ![t] = Raised("broken_pipe")]
                /\ pc' = [pc EXCEPT ![t] = "sr_done"]
                /\ lost' = LostBy(t)
                /\ UNCHANGED <<stdin, sent, wrote, toolReqs>>
           ELSE /\ stdin' = [stdin EXCEPT ![p] =
                       Append(@, [id |-> call[t].rid, method |-> call[t].method])]
                /\ sent' = [sent EXCEPT ![p] = Append(@, call[t].rid)]
                /\ wrote' = [wrote EXCEPT ![p] = Append(@, call[t].method)]
                /\ toolReqs' = ToolReqsAfter(t)
                /\ pc' = [pc EXCEPT ![t] = "sr_read"]
                /\ UNCHANGED <<ret, lost>>
    /\ UNCHANGED <<clientVars, peer, stdout, faults, failed, call, route, qres,
                   llmReqs, llmOutcome, nq, mainVars, statsVars, asideVars, apiVars>>

\* A reader shared by all connections: readline() on p returns '' as soon as
\* any child's stream is at its end.
StreamAtEofAny(p) == \E q \in Peers : stdout[q] = <<>> /\ peer[q] \in {"eof", "exited"}

\* `self.process.stdout.readline()` returns '': nothing buffered and the
\* child's stdout is closed.
StreamAtEof(p) == stdout[p] = <<>> /\ peer[p] \in {"eof", "exited"}

\* A _send_request that returns the "error" member like a result.
ParseResponseLenient(line) ==
    CASE line.kind = "garbage" -> Raised("json_error")
      [] line.kind = "scalar"  -> Raised("type_error")
      [] OTHER -> [status |-> "ok", id |-> line.id, kind |-> line.kind,
                   of |-> line.of, content |-> line.content]

\* What _send_request does with the line it read: json.loads (which raises
\* JSONDecodeError on text that is not JSON), then `if "error" in response:
\* raise Exception("MCP error")`, else `return response.get("result", {})`
\* (AttributeError or TypeError on JSON that is not an object; {} for an
\* object without "result").  The line's id is not looked at.
ParseResponse(line) ==
    CASE line.kind = "garbage" -> Raised("json_error")
      [] line.kind = "error"   -> Raised("mcp_error")
      [] line.kind = "scalar"  -> Raised("type_error")
      [] OTHER -> [status |-> "ok", id |-> line.id, kind |-> line.kind,
                   of |-> line.of, content |-> line.content]

\* MCPServer.call_tool: `return response.get("content", [])` on what
\* _send_request returned: the content array of a tools/call result, [] for
\* an object without "content" (another method's result, or {}).
CallToolReturn(r) ==
    IF r.kind = "result" /\ r.of = "tools/call" THEN r.content ELSE <<>>

\* `response_line = self.process.stdout.readline()` and what follows it.  The
\* call blocks while the stream is open and holds no line.
SrRead(t) ==
    /\ pc[t] = "sr_read"
    /\ LET p == call[t].peer IN
         \/ /\ stdout[p] # <<>>
            /\ ret' = [ret EXCEPT ![t] = ParseResponse(Head(stdout[p]))]
            /\ stdout' = [stdout EXCEPT ![p] = Tail(@)]
            /\ lost' = lost
         \/ /\ StreamAtEof(p)
            /\ ret' = [ret EXCEPT ![t] = Raised("closed")]
            /\ stdout' = stdout
            /\ lost' = LostBy(t)
    /\ pc' = [pc EXCEPT ![t] = "sr_done"]
    /\ UNCHANGED <<clientVars, peer, stdin, sent, wrote, faults, failed, call, queryVars,
                   mainVars, statsVars, asideVars, apiVars>>

\* One statement of _send_request, by thread t.
SendStep(t) == SrLoad(t) \/ SrStore(t) \/ SrBuild(t) \/ SrWrite(t) \/ SrRead(t)

\* --------------------------------------------- ROCmCLIAgent.initialize
\* An add_server whose `if <path>.exists()` guard is false is not made.
SkipServer ==
    /\ phase = "init" /\ hs = "none" /\ pc[MainThread] = "idle"
    /\ k <= Len(ConfiguredPeers)
    /\ ConfiguredPeers[k] \in OptionalPeers
    /\ ~exists[ConfiguredPeers[k]]
    /\ k' = k + 1
    /\ UNCHANGED <<entry, exists, phase, hs, termReq, stopRaised, initFailed,
                   clientVars, wireVars, threadVars, queryVars, statsVars, asideVars, apiVars>>

Configured(p) == p \in OptionalPeers => exists[p]

\* A membership test that finds every name.
RegisteredAlways(p) == p \in Peers

\* `server_name in self.servers`.
Registered(p) == \E j \in DOMAIN servers : servers[j] = p

\* add_server: MCPServer(config), then start(): subprocess.Popen succeeds and
\* the handshake begins with the initialize request.
AddServer ==
    /\ phase = "init" /\ hs = "none" /\ pc[MainThread] = "idle"
    /\ k <= Len(ConfiguredPeers)
    /\ LET p == ConfiguredPeers[k] IN
         /\ Configured(p)
         /\ process' = [process EXCEPT ![p] = "popen"]
         /\ peer' = [peer EXCEPT ![p] = "alive"]
         /\ call' = [call EXCEPT ![MainThread] = NewCall(p, "initialize")]
         /\ spawned' = [spawned EXCEPT ![p] = @ + 1]
    /\ hs' = "initialize"
    /\ pc' = [pc EXCEPT ![MainThread] = "sr_load"]
    /\ UNCHANGED <<entry, exists, phase, k, termReq, stopRaised, initFailed,
                   servers, request_id, tools, stdin, stdout, sent, wrote, lost, failed, faults,
                   ret, queryVars, statsVars, asideVars, ops, found, signals>>

\* start(): subprocess.Popen raises (the command is not installed); the
\* exception leaves add_server and initialize.
SpawnFails ==
    /\ phase = "init" /\ hs = "none" /\ pc[MainThread] = "idle"
    /\ k <= Len(ConfiguredPeers)
    /\ Configured(ConfiguredPeers[k])
    /\ faults < MaxFaults
    /\ faults' = faults + 1
    /\ initFailed' = ConfiguredPeers[k]
    /\ phase' = "init_failed"
    /\ ret' = [ret EXCEPT ![MainThread] = Raised("spawn_error")]
    /\ UNCHANGED <<entry, exists, k, hs, termReq, stopRaised, clientVars,
                   peer, stdin, stdout, sent, wrote, lost, failed, pc, call,
                   queryVars, statsVars, asideVars, apiVars>>

\* An add_server that registers the MCPServer whether or not start() raised.
HandshakeRegisters(e) ==
    /\ initFailed' = call[MainThread].peer
    /\ phase' = "init_failed"
    /\ hs' = "none"
    /\ pc' = [pc EXCEPT ![MainThread] = "idle"]
    /\ call' = [call EXCEPT ![MainThread] = NoCall]
    /\ ret' = [ret EXCEPT ![MainThread] = e]
    /\ servers' = Append(servers, call[MainThread].peer)
    /\ UNCHANGED <<entry, exists, k, termReq, stopRaised, process, request_id,
                   tools, wireVars, queryVars, statsVars, asideVars, apiVars>>

\* An exception e inside start() propagates unchanged through add_server and
\* initialize: neither has a try block.  The MCPServer is not registered.
HandshakeRaises(e) ==
    /\ initFailed' = call[MainThread].peer
    /\ phase' = "init_failed"
    /\ hs' = "none"
    /\ pc' = [pc EXCEPT ![MainThread] = "idle"]
    /\ call' = [call EXCEPT ![MainThread] = NoCall]
    /\ ret' = [ret EXCEPT ![MainThread] = e]
    /\ UNCHANGED <<entry, exists, k, termReq, stopRaised, clientVars,
                   wireVars, queryVars, statsVars, asideVars, apiVars>>

\* start(): `await self._send_request("initialize", ...)` has ended.
InitializeReturns ==
    /\ phase = "init" /\ hs = "initialize" /\ pc[MainThread] = "sr_done"
    /\ IF ret[MainThread].status = "ok"
         THEN /\ hs' = "initialized"
              /\ pc' = [pc EXCEPT ![MainThread] = "notify"]
              /\ ret' = [ret EXCEPT ![MainThread] = NoRet]
              /\ UNCHANGED <<entry, exists, phase, k, termReq, stopRaised,
                             initFailed, clientVars, wireVars, call,
                             queryVars, statsVars, asideVars, apiVars>>
         ELSE HandshakeRaises(ret[MainThread])

\* A _send_notification that takes an id from the counter as _send_request
\* does, and writes it.
SendNotificationNumbered ==
    /\ phase = "init" /\ hs = "initialized" /\ pc[MainThread] = "notify"
    /\ LET p == call[MainThread].peer IN
         IF PipeBroken(p)
           THEN HandshakeRaises(Raised("broken_pipe"))
           ELSE /\ request_id' = [request_id EXCEPT ![p] = @ + 1]
                /\ stdin' = [stdin EXCEPT ![p] =
                       Append(@, [id |-> request_id[p] + 1, method |-> "initialized"])]
                /\ wrote' = [wrote EXCEPT ![p] = Append(@, "initialized")]
                /\ hs' = "tools_list"
                /\ call' = [call EXCEPT ![MainThread] = NewCall(p, "tools/list")]
                /\ pc' = [pc EXCEPT ![MainThread] = "sr_load"]
                /\ UNCHANGED <<entry, exists, phase, k, termReq, stopRaised,
                               initFailed, servers, process, tools, peer, stdout,
                               sent, lost, failed, faults, ret, queryVars, statsVars,
                               asideVars, apiVars>>

\* _send_notification("initialized"): one line without an id is written, no
\* line is read, the counter is not touched; then tools/list is started.
SendNotification ==
    /\ phase = "init" /\ hs = "initialized" /\ pc[MainThread] = "notify"
    /\ LET p == call[MainThread].peer IN
         IF PipeBroken(p)
           THEN HandshakeRaises(Raised("broken_pipe"))
           ELSE /\ stdin' = [stdin EXCEPT ![p] =
                       Append(@, [id |-> NoId, method |-> "initialized"])]
                /\ wrote' = [wrote EXCEPT ![p] = Append(@, "initialized")]
                /\ hs' = "tools_list"
                /\ call' = [call EXCEPT ![MainThread] = NewCall(p, "tools/list")]
                /\ pc' = [pc EXCEPT ![MainThread] = "sr_load"]
                /\ UNCHANGED <<entry, exists, phase, k, termReq, stopRaised,
                               initFailed, clientVars, peer, stdout, sent, lost, failed,
                               faults, ret, queryVars, statsVars, asideVars, apiVars>>

\* `tools_response.get("tools", [])`: the catalog of a tools/list result, []
\* for an object without "tools" (the initialize result, or {}).
ToolsOf(p, r) ==
    IF r.kind = "result" /\ r.of = "tools/list" THEN Catalog(p) ELSE <<>>

\* start(): tools/list has ended; `self.tools = ...`, and back in add_server
\* `self.servers[config.name] = server`.
ToolsListReturns ==
    /\ phase = "init" /\ hs = "tools_list" /\ pc[MainThread] = "sr_done"
    /\ IF ret[MainThread].status = "ok"
         THEN LET p == call[MainThread].peer IN
              /\ tools' = [tools EXCEPT ![p] = ToolsOf(p, ret[MainThread])]
              /\ servers' = Append(servers, p)
              /\ k' = k + 1
              /\ hs' = "none"
              /\ pc' = [pc EXCEPT ![MainThread] = "idle"]
              /\ call' = [call EXCEPT ![MainThread] = NoCall]
              /\ ret' = [ret EXCEPT ![MainThread] = NoRet]
              /\ UNCHANGED <<entry, exists, phase, termReq, stopRaised,
                             initFailed, process, request_id, wireVars,
                             queryVars, statsVars, asideVars, apiVars>>
         ELSE HandshakeRaises(ret[MainThread])

\* initialize returns after its last add_server.  In RAITUI.run the stats
\* thread is started next (the update_from_agent call before it runs inside
\* the event loop, where run_until_complete raises before anything is sent).
InitializeCompletes ==
    /\ phase = "init" /\ hs = "none" /\ pc[MainThread] = "idle"
    /\ k > Len(ConfiguredPeers)
    /\ phase' = "serve"
    /\ UNCHANGED <<entry, exists, k, hs, termReq, stopRaised, initFailed,
                   clientVars, wireVars, threadVars, queryVars, statsVars, asideVars, apiVars>>

\* The exception of initialize reaches the entry point: rai.py main prints it
\* (`except Exception`), the shell and the TUI have only `finally`; each then
\* runs agent.shutdown().
InitFailureHandled ==
    /\ phase = "init_failed"
    /\ phase' = "shutdown"
    /\ k' = 1
    /\ ret' = [ret EXCEPT ![MainThread] = NoRet]
    /\ UNCHANGED <<entry, exists, hs, termReq, stopRaised, initFailed,
                   clientVars, wireVars, pc, call, queryVars, statsVars, asideVars, apiVars>>

\* ------------------------------------------------ ROCmCLIAgent._query_llm
\* How the HTTP request to the llama server can go: an answer at
\* choices[0].message.content, or one of the failures.
LlmOutcomes ==
    {"answer", "connection_failure", "timeout", "non_json", "no_choices",
     "empty_choices"}

\* The exception raised inside the try block of _query_llm: by urlopen, by
\* json.loads, or by `data['choices'][0]['message']['content']`.
RequestRaises(o) ==
    CASE o = "connection_failure" -> "URLError"
      [] o = "timeout"            -> "TimeoutError"
      [] o = "non_json"           -> "JSONDecodeError"
      [] o = "no_choices"         -> "KeyError"
      [] o = "empty_choices"      -> "IndexError"
      [] OTHER                    -> "none"

\* `except urllib.error.URLError`: a handler for transport failures alone.
CaughtIfTransport(e) == e \in {"URLError", "TimeoutError"}

\* `except Exception as e`: every one of these is a subclass of Exception.
CaughtByQueryLlm(e) ==
    e \in {"URLError", "TimeoutError", "JSONDecodeError", "KeyError", "IndexError"}

\* _query_llm: the answer, or `return f"ERROR: LLM query failed: {e}"`.
QueryLlm(o) ==
    CASE RequestRaises(o) = "none"          -> "llm_answer"
      [] CaughtByQueryLlm(RequestRaises(o)) -> "llm_error_text"
      [] OTHER                              -> "raised"

\* ------------------------------------------- ROCmCLIAgent.process_query
\* The one-shot CLI processes one query, the REPL and the TUI several.
QueryLimit == IF entry = "cli" THEN 1 ELSE MaxQueries

\* process_query for a query that classify maps to i.  A tool route goes
\* through MCPClient.call_tool, which raises ValueError for a name that is
\* not in self.servers; the LLM route is one HTTP request, made by _query_llm;
\* nothing in process_query catches an exception.
ProcessQuery(i) ==
    /\ phase = "serve" /\ pc[MainThread] = "idle"
    /\ nq < QueryLimit
    /\ nq' = nq + 1
    /\ route' = ExecuteIntent(i)
    /\ LET r == ExecuteIntent(i) IN
         CASE r.kind = "tool" /\ Registered(r.peer) ->
                /\ call' = [call EXCEPT ![MainThread] = NewCall(r.peer, "tools/call")]
                /\ pc' = [pc EXCEPT ![MainThread] = "sr_load"]
                /\ phase' = "query"
                /\ UNCHANGED <<qres, ret, llmReqs, toolReqs, llmOutcome>>
           [] r.kind = "tool" /\ ~Registered(r.peer) ->
                /\ qres' = "raised"
                /\ ret' = [ret EXCEPT ![MainThread] = Raised("unknown_server")]
                /\ phase' = "query_done"
                /\ UNCHANGED <<call, pc, llmReqs, toolReqs, llmOutcome>>
           [] r.kind = "llm" ->
                /\ \E o \in LlmOutcomes :
                     /\ llmOutcome' = o
                     /\ qres' = QueryLlm(o)
                /\ llmReqs' = llmReqs + 1
                /\ phase' = "query_done"
                /\ UNCHANGED <<call, pc, ret, toolReqs>>
           [] OTHER ->
                /\ qres' = "fixed_text"
                /\ phase' = "query_done"
                /\ UNCHANGED <<call, pc, ret, llmReqs, toolReqs, llmOutcome>>
    /\ UNCHANGED <<entry, exists, k, hs, termReq, stopRaised, initFailed,
                   clientVars, wireVars, statsVars, asideVars, apiVars>>

\* The peers whose latest tools/call ended with the remote-tool error
\* (`raise Exception(f"MCP error: ...")`), once the call of thread t is over.
FailedAfter(t) ==
    CASE failed = Untracked -> failed
      [] ret[t].status = "mcp_error" -> failed \cup {call[t].peer}
      [] OTHER -> failed \ {call[t].peer}

\* A handler that calls the tool a second time when the first call failed.
ToolCallRetries ==
    /\ phase = "query" /\ pc[MainThread] = "sr_done"
    /\ IF ret[MainThread].status = "ok" \/ toolReqs > 1
         THEN /\ qres' = IF ret[MainThread].status = "ok" THEN "content" ELSE "raised"
              /\ phase' = "query_done"
              /\ pc' = [pc EXCEPT ![MainThread] = "idle"]
              /\ failed' = FailedAfter(MainThread)
              /\ UNCHANGED <<call, ret>>
         ELSE /\ call' = [call EXCEPT ![MainThread] = NewCall(route.peer, "tools/call")]
              /\ ret' = [ret EXCEPT ![MainThread] = NoRet]
              /\ pc' = [pc EXCEPT ![MainThread] = "sr_load"]
              /\ UNCHANGED <<qres, phase, failed>>
    /\ UNCHANGED <<entry, exists, k, hs, termReq, stopRaised, initFailed,
                   clientVars, peer, stdin, stdout, sent, wrote, lost, faults, route, llmReqs, toolReqs, llmOutcome,
                   nq, statsVars, asideVars, apiVars>>

\* MCPServer.call_tool returns `response.get("content", [])` to the handler,
\* which formats it; an exception of _send_request passes through call_tool,
\* the handler, _execute_intent and process_query unchanged.
ToolCallReturns ==
    /\ phase = "query" /\ pc[MainThread] = "sr_done"
    /\ qres' = IF ret[MainThread].status = "ok" THEN "content" ELSE "raised"
    /\ phase' = "query_done"
    /\ pc' = [pc EXCEPT ![MainThread] = "idle"]
    /\ failed' = FailedAfter(MainThread)
    /\ UNCHANGED <<entry, exists, k, hs, termReq, stopRaised, initFailed,
                   clientVars, peer, stdin, stdout, sent, wrote, lost, faults,
                   call, ret, route, llmReqs, toolReqs, llmOutcome, nq,
                   statsVars, asideVars, apiVars>>

\* A REPL without `except Exception` in its loop: an exception of process_query
\* leaves the loop, as it does in rai.py main.
QueryReturnsEndsSession ==
    /\ phase = "query_done"
    /\ IF entry = "cli" \/ qres = "raised"
         THEN phase' = "shutdown" /\ k' = 1
         ELSE phase' = "serve" /\ k' = k
    /\ route' = NoRoute
    /\ qres' = "none"
    /\ llmReqs' = 0
    /\ toolReqs' = 0
    /\ llmOutcome' = "none"
    /\ call' = [call EXCEPT ![MainThread] = NoCall]
    /\ ret' = [ret EXCEPT ![MainThread] = NoRet]
    /\ UNCHANGED <<entry, exists, hs, termReq, stopRaised, initFailed,
                   clientVars, wireVars, pc, nq, statsVars, asideVars, apiVars>>

\* process_query is back in its caller.  rai.py main prints the result or the
\* exception and goes to `finally: shutdown`; the REPL loop and
\* RAITUI.process_query catch the exception and go on.
QueryReturns ==
    /\ phase = "query_done"
    /\ IF entry = "cli"
         THEN phase' = "shutdown" /\ k' = 1
         ELSE phase' = "serve" /\ k' = k
    /\ route' = NoRoute
    /\ qres' = "none"
    /\ llmReqs' = 0
    /\ toolReqs' = 0
    /\ llmOutcome' = "none"
    /\ call' = [call EXCEPT ![MainThread] = NoCall]
    /\ ret' = [ret EXCEPT ![MainThread] = NoRet]
    /\ UNCHANGED <<entry, exists, hs, termReq, stopRaised, initFailed,
                   clientVars, wireVars, pc, nq, statsVars, asideVars, apiVars>>

\* The REPL reads /exit or EOF, the TUI loop is left: `finally` runs
\* agent.shutdown(), that is MCPClient.stop_all().
Exit ==
    /\ phase = "serve" /\ pc[MainThread] = "idle"
    /\ entry # "cli"
    /\ phase' = "shutdown"
    /\ k' = 1
    /\ UNCHANGED <<entry, exists, hs, termReq, stopRaised, initFailed,
                   clientVars, wireVars, threadVars, queryVars, statsVars, asideVars, apiVars>>

\* ------------------------------------------------------ MCPClient.stop_all
\* A terminate() that signals the child whether or not it has exited.
RunningAlways(p) == TRUE

\* The child of p has not exited.  Popen.terminate() polls the child first
\* and sends SIGTERM only to one that has not exited; Popen.wait() returns at
\* once for one that has.
Running(p) == peer[p] \in {"alive", "hung", "eof"}

\* `self.process.terminate()`: the SIGTERMs delivered, per name.
Terminate(p) == [signals EXCEPT ![p] = IF Running(p) THEN @ + 1 ELSE @]

\* One iteration of `for server in self.servers.values(): server.stop()`:
\* `if self.process:` terminate(), then wait(timeout=5) returns.
StopServer ==
    /\ phase = "shutdown"
    /\ k <= Len(servers)
    /\ IF process[servers[k]] # "none"
         THEN /\ termReq' = [termReq EXCEPT ![servers[k]] = TRUE]
              /\ signals' = Terminate(servers[k])
              /\ peer' = [peer EXCEPT ![servers[k]] = "exited"]
         ELSE UNCHANGED <<termReq, signals, peer>>
    /\ k' = k + 1
    /\ UNCHANGED <<entry, exists, phase, hs, stopRaised, initFailed,
                   clientVars, stdin, stdout, sent, wrote, lost, failed, faults, threadVars,
                   queryVars, statsVars, asideVars, ops, found, spawned>>

\* One iteration in which the child does not exit within the 5 seconds:
\* wait raises TimeoutExpired, which leaves stop and, with no try block in
\* the loop, stop_all.
StopServerTimesOut ==
    /\ phase = "shutdown"
    /\ k <= Len(servers)
    /\ process[servers[k]] # "none"
    /\ peer[servers[k]] # "exited"
    /\ faults < MaxFaults \/ peer[servers[k]] = "hung"
    /\ faults' = IF peer[servers[k]] = "hung" THEN faults ELSE faults + 1
    /\ termReq' = [termReq EXCEPT ![servers[k]] = TRUE]
    /\ signals' = Terminate(servers[k])
    /\ stopRaised' = TRUE
    /\ phase' = "done"
    /\ UNCHANGED <<entry, exists, k, hs, initFailed, clientVars, peer, stdin,
                   stdout, sent, wrote, lost, failed, threadVars, queryVars, statsVars, asideVars,
                   ops, found, spawned>>

\* The loop of stop_all is exhausted: shutdown returns, the program ends.
StopAllReturns ==
    /\ phase = "shutdown"
    /\ k > Len(servers)
    /\ phase' = "done"
    /\ UNCHANGED <<entry, exists, k, hs, termReq, stopRaised, initFailed,
                   clientVars, wireVars, threadVars, queryVars, statsVars, asideVars, apiVars>>

\* ------------------------------------------- RAITUI.update_stats_worker
\* The stats thread is started after initialize has returned (not when it
\* raised) and, a daemon thread, lives to the end of the program.
StatsThreadRuns ==
    /\ entry = "tui"
    /\ initFailed = "none"
    /\ phase \in {"serve", "query", "query_done", "shutdown"}

\* update_from_agent: the next `agent.mcp_client.call_tool("rocm", ...)`,
\* run on the thread's own event loop.
StatsStartCall ==
    /\ StatsThreadRuns
    /\ pc[StatsThread] = "idle"
    /\ ns < MaxStatsCalls
    /\ Registered("rocm")
    /\ ns' = ns + 1
    /\ call' = [call EXCEPT ![StatsThread] = NewCall("rocm", "tools/call")]
    /\ pc' = [pc EXCEPT ![StatsThread] = "sr_load"]
    /\ UNCHANGED <<mainVars, clientVars, wireVars, ret, queryVars, statsStep,
                   apiVars, asideVars>>

\* The call has ended.  A result with a text block lets update_from_agent go
\* on to its next call; anything else raises inside its try block, whose
\* `except Exception: pass` ends the cycle.
StatsCallReturns ==
    /\ StatsThreadRuns
    /\ pc[StatsThread] = "sr_done"
    /\ statsStep' =
         IF /\ ret[StatsThread].status = "ok"
            /\ CallToolReturn(ret[StatsThread]) # <<>>
            /\ statsStep < Len(StatsCalls)
           THEN statsStep + 1
           ELSE 1
    /\ pc' = [pc EXCEPT ![StatsThread] = "idle"]
    /\ call' = [call EXCEPT ![StatsThread] = NoCall]
    /\ ret' = [ret EXCEPT ![StatsThread] = NoRet]
    /\ failed' = FailedAfter(StatsThread)
    /\ UNCHANGED <<mainVars, clientVars, peer, stdin, stdout, sent, wrote, lost,
                   faults, queryVars, ns, apiVars, asideVars>>

MainSend == SendStep(MainThread)

StatsSend == StatsThreadRuns /\ SendStep(StatsThread)

\* ---------------------------------------------------------- the child process
\* The child consumes one line of its stdin.  A request (a line with an id)
\* is answered by one line carrying that id: the result of the request's
\* method (for tools/call with a content array) or an error object; a
\* notification is answered by nothing.
Responses(req) ==
    {Line(req.id, "error", "none", <<>>)}
    \cup {Line(req.id, "result", req.method, c) :
            c \in IF req.method = "tools/call" THEN ContentArrays ELSE {<<>>}}

PeerResponds(p) ==
    /\ phase # "done"
    /\ peer[p] = "alive"
    /\ stdin[p] # <<>>
    /\ stdin' = [stdin EXCEPT ![p] = Tail(@)]
    /\ IF Head(stdin[p]).id = NoId
         THEN stdout' = stdout
         ELSE \E ln \in Responses(Head(stdin[p])) :
                stdout' = [stdout EXCEPT ![p] = Append(@, ln)]
    /\ UNCHANGED <<mainVars, clientVars, peer, sent, wrote, lost, failed, faults, threadVars,
                   queryVars, statsVars, asideVars, apiVars>>

\* The client observes the child only where it writes to it, reads from it
\* or stops it, so what the child does between two requests is observed at
\* the next write: the child's own changes are placed where a request to it
\* is about to be written or is awaited.
Observed(p) ==
    \E t \in Threads : call[t].peer = p /\ pc[t] \in {"sr_write", "sr_read", "notify"}

\* An external child writes a line that answers no request: a notification
\* of its own (an object with neither "id" nor "result" nor "error"), a JSON
\* value that is not an object, or a log line that is not JSON.
PeerWritesUncorrelated(p) ==
    /\ phase # "done"
    /\ p \in ExternalPeers
    /\ peer[p] = "alive"
    /\ Observed(p)
    /\ faults < MaxFaults
    /\ faults' = faults + 1
    /\ \E kd \in {"other", "scalar", "garbage"} :
         stdout' = [stdout EXCEPT ![p] = Append(@, Line(NoId, kd, "none", <<>>))]
    /\ UNCHANGED <<mainVars, clientVars, peer, stdin, sent, wrote, lost, failed, threadVars,
                   queryVars, statsVars, asideVars, apiVars>>

\* The child changes state on its own: it exits, it closes its stdout while
\* it lives on, or it stops answering (alive, silent).
PeerFails(p) ==
    /\ phase # "done"
    /\ peer[p] = "alive"
    /\ Observed(p)
    /\ faults < MaxFaults
    /\ faults' = faults + 1
    /\ \E st \in {"exited", "eof", "hung"} : peer' = [peer EXCEPT ![p] = st]
    /\ UNCHANGED <<mainVars, clientVars, stdin, stdout, sent, wrote, lost, failed, threadVars,
                   queryVars, statsVars, asideVars, apiVars>>

PeerStep == \E p \in Peers : PeerResponds(p) \/ PeerWritesUncorrelated(p) \/ PeerFails(p)

\* ------------------------------------------- MCPClient, called directly
\* The names a caller registers, the tool names it looks up, and the catalogs
\* a child may advertise in its tools/list result.
ApiPeers == {"filesystem", "rocm"}

ToolNames == {"read_file", "get_vram"}

Catalogs == {<<>>, <<"read_file">>, <<"get_vram">>, <<"read_file", "get_vram">>}

\* One invocation of an MCPClient or MCPServer method, as recorded in ops.
Op(n, a) == [name |-> n, arg |-> a]

\* `for tool in server.tools: if tool["name"] == tool_name`.
Has(cat, t) == \E i \in DOMAIN cat : cat[i] = t

\* find_tool from the j-th entry of self.servers.items() on: the first
\* server in the dict's order whose tools hold the name, else None.
RECURSIVE FindToolFrom(_, _)
FindToolFrom(j, t) ==
    IF j > Len(servers)
      THEN None
      ELSE IF Has(tools[servers[j]], t)
             THEN <<servers[j], t>>
             ELSE FindToolFrom(j + 1, t)

\* The same scan over the first j entries, from the last of them backwards.
RECURSIVE FindToolBack(_, _)
FindToolBack(j, t) ==
    IF j < 1
      THEN None
      ELSE IF Has(tools[servers[j]], t)
             THEN <<servers[j], t>>
             ELSE FindToolBack(j - 1, t)

\* A find_tool in which the server registered last wins.
FindToolLast(t) == FindToolBack(Len(servers), t)

\* MCPClient.find_tool.
FindTool(t) == FindToolFrom(1, t)

\* MCPClient.add_server(config) with config.name = p, awaited by its caller:
\* `server = MCPServer(config)`, `await server.start()`, then
\* `self.servers[config.name] = server`.  There is no test of
\* `config.name in self.servers`.  start() ends in one of three ways: Popen
\* raises; a child is spawned and a handshake step raises, which leaves
\* add_server before the assignment (the new MCPServer is dropped, its child
\* is left running); or the handshake ends and the new MCPServer, with a
\* fresh counter and the advertised catalog, is stored under the name.  A
\* dict assignment to a key that is present keeps the key's position.
ApiAddServer(p) ==
    /\ phase = "api"
    /\ Len(ops) < MaxApiCalls
    /\ ops' = Append(ops, Op("add_server", p))
    /\ \/ /\ ret' = [ret EXCEPT ![MainThread] = Raised("spawn_error")]
          /\ UNCHANGED <<clientVars, peer, stdin, stdout, sent, wrote, termReq,
                         spawned>>
       \/ /\ \E e \in {"mcp_error", "json_error", "closed"} :
                ret' = [ret EXCEPT ![MainThread] = Raised(e)]
          /\ spawned' = [spawned EXCEPT ![p] = @ + 1]
          /\ UNCHANGED <<clientVars, peer, stdin, stdout, sent, wrote, termReq>>
       \/ /\ \E cat \in Catalogs : tools' = [tools EXCEPT ![p] = cat]
          /\ spawned' = [spawned EXCEPT ![p] = @ + 1]
          /\ process' = [process EXCEPT ![p] = "popen"]
          /\ request_id' = [request_id EXCEPT ![p] = 2]
          /\ servers' = IF Registered(p) THEN servers ELSE Append(servers, p)
          /\ peer' = [peer EXCEPT ![p] = "alive"]
          /\ stdin' = [stdin EXCEPT ![p] = <<>>]
          /\ stdout' = [stdout EXCEPT ![p] = <<>>]
          /\ sent' = [sent EXCEPT ![p] = @ \o <<1, 2>>]
          /\ wrote' = [wrote EXCEPT ![p] = @ \o Handshake]
          /\ termReq' = [termReq EXCEPT ![p] = FALSE]
          /\ ret' = [ret EXCEPT ![MainThread] = NoRet]
    /\ UNCHANGED <<entry, exists, phase, k, hs, stopRaised, initFailed, lost, failed,
                   faults, pc, call, queryVars, statsVars, asideVars, found, signals>>

\* MCPClient.find_tool(t), called by the caller.
ApiFindTool(t) ==
    /\ phase = "api"
    /\ Len(ops) < MaxApiCalls
    /\ ops' = Append(ops, Op("find_tool", t))
    /\ found' = FindTool(t)
    /\ ret' = [ret EXCEPT ![MainThread] = NoRet]
    /\ UNCHANGED <<mainVars, clientVars, wireVars, pc, call, queryVars,
                   statsVars, asideVars, spawned, signals>>

\* MCPServer.stop() on the connection named p, which returns: nothing at all
\* when self.process is None, else terminate() and a wait() that ends within
\* its 5 seconds.
ApiStop(p) ==
    /\ phase = "api"
    /\ Len(ops) < MaxApiCalls
    /\ ops' = Append(ops, Op("stop", p))
    /\ IF process[p] # "none"
         THEN /\ termReq' = [termReq EXCEPT ![p] = TRUE]
              /\ signals' = Terminate(p)
              /\ peer' = [peer EXCEPT ![p] = "exited"]
         ELSE UNCHANGED <<termReq, signals, peer>>
    /\ ret' = [ret EXCEPT ![MainThread] = NoRet]
    /\ UNCHANGED <<entry, exists, phase, k, hs, stopRaised, initFailed,
                   clientVars, stdin, stdout, sent, wrote, lost, failed, faults, pc,
                   call, queryVars, statsVars, asideVars, found, spawned>>

\* MCPServer.stop() whose wait(timeout=5) raises TimeoutExpired: the child
\* has not exited and does not exit on the signal in time.
ApiStopTimesOut(p) ==
    /\ phase = "api"
    /\ Len(ops) < MaxApiCalls
    /\ process[p] # "none"
    /\ Running(p)
    /\ faults < MaxFaults
    /\ faults' = faults + 1
    /\ ops' = Append(ops, Op("stop", p))
    /\ termReq' = [termReq EXCEPT ![p] = TRUE]
    /\ signals' = Terminate(p)
    /\ ret' = [ret EXCEPT ![MainThread] = Raised("timeout_expired")]
    /\ UNCHANGED <<entry, exists, phase, k, hs, stopRaised, initFailed,
                   clientVars, peer, stdin, stdout, sent, wrote, lost, failed, pc,
                   call, queryVars, statsVars, asideVars, found, spawned>>

\* MCPClient.stop_all(), called by the caller: stop() on every registered
\* server in the dict's order, all of them returning.
ApiStopAll ==
    /\ phase = "api"
    /\ Len(ops) < MaxApiCalls
    /\ ops' = Append(ops, Op("stop_all", "none"))
    /\ termReq' = [p \in Peers |-> termReq[p] \/ Registered(p)]
    /\ signals' = [p \in Peers |->
                     IF Registered(p) /\ Running(p) THEN signals[p] + 1
                                                    ELSE signals[p]]
    /\ peer' = [p \in Peers |-> IF Registered(p) THEN "exited" ELSE peer[p]]
    /\ ret' = [ret EXCEPT ![MainThread] = NoRet]
    /\ UNCHANGED <<entry, exists, phase, k, hs, stopRaised, initFailed,
                   clientVars, stdin, stdout, sent, wrote, lost, failed, faults, pc,
                   call, queryVars, statsVars, asideVars, found, spawned>>

\* ------------------------------------------------------ IntentClassifier
\* A query is a string; TLC reads a string as the sequence of its characters
\* (Len, Head, Tail, SubSeq, \o).
UpperLetters == "ABCDEFGHIJKLMNOPQRSTUVWXYZ"

LowerLetters == "abcdefghijklmnopqrstuvwxyz"

CharAt(s, i) == SubSeq(s, i, i)

\* str.lower() of one character.
LowerChar(c) ==
    IF \E i \in 1..26 : CharAt(UpperLetters, i) = c
      THEN CharAt(LowerLetters, CHOOSE i \in 1..26 : CharAt(UpperLetters, i) = c)
      ELSE c

\* The query as re.IGNORECASE compares it with the (lower-case) literals of
\* the table: every letter folded to lower case.  The character classes of
\* the table hold no letters, so folding does not change what they match.
RECURSIVE Fold(_)
Fold(s) == IF s = "" THEN "" ELSE LowerChar(Head(s)) \o Fold(Tail(s))

\* The characters str.strip() removes and \s matches.
Whitespace == {" ", "\t", "\n"}

RECURSIVE LStrip(_)
LStrip(s) == IF s # "" /\ Head(s) \in Whitespace THEN LStrip(Tail(s)) ELSE s

RECURSIVE RStrip(_)
RStrip(s) ==
    IF s # "" /\ CharAt(s, Len(s)) \in Whitespace
      THEN RStrip(SubSeq(s, 1, Len(s) - 1))
      ELSE s

\* str.strip().
Strip(s) == RStrip(LStrip(s))

Digits == "0123456789"

\* The value of one decimal digit.
DigitValue(c) == (CHOOSE i \in 1..10 : CharAt(Digits, i) = c) - 1

\* int() of a string of decimal digits.
RECURSIVE ToInt(_)
ToInt(s) ==
    IF s = "" THEN 0
    ELSE 10 * ToInt(SubSeq(s, 1, Len(s) - 1)) + DigitValue(CharAt(s, Len(s)))

\* The regular expressions of the table, as syntax trees.
Lit(s) == [op |-> "lit", s |-> s]

Cls(c) == [op |-> "cls", c |-> c]

Cat(rs) == [op |-> "seq", rs |-> rs]

Alt(rs) == [op |-> "alt", rs |-> rs]

Opt(r) == [op |-> "opt", r |-> r]

Star(r) == [op |-> "star", r |-> r]

Plus(r) == [op |-> "plus", r |-> r]

LazyPlus(r) == [op |-> "lazyplus", r |-> r]

Grp(n, r) == [op |-> "grp", n |-> n, r |-> r]

\* Does character c belong to the class: [\s-], . (anything but a newline),
\* \d, [^"].
InClass(c, cls) ==
    CASE cls = "sep"      -> c \in Whitespace \cup {"-"}
      [] cls = "any"      -> c # "\n"
      [] cls = "digit"    -> \E i \in 1..10 : CharAt(Digits, i) = c
      [] cls = "notquote" -> c # "\""

\* A position of the matcher in the query: the index of the next character
\* and the spans (first, last + 1) of the groups matched so far; <<0, 0>>
\* for a group that has not taken part.
NoSpan == <<0, 0>>

StartOfMatch == [pos |-> 1, g |-> <<NoSpan, NoSpan>>]

\* The backtracking matcher of re: the positions at which r can end when it
\* starts at m in the folded query f, in the order in which the matcher
\* tries them: alternatives left to right, a greedy quantifier the longer
\* match first, a lazy one the shorter.
\* The number of characters of the class cls that f has in a row from
\* position p on.
RunLength(cls, f, p) ==
    CHOOSE n \in 0..(Len(f) + 1 - p) :
        /\ \A i \in 0..(n - 1) : InClass(CharAt(f, p + i), cls)
        /\ n = Len(f) + 1 - p \/ ~InClass(CharAt(f, p + n), cls)

RECURSIVE Run(_, _, _), RunSeq(_, _, _, _), RunAll(_, _, _, _), RunStar(_, _, _), RunLazy(_, _, _)
Run(r, f, m) ==
    CASE r.op = "lit" ->
           IF /\ m.pos + Len(r.s) - 1 <= Len(f)
              /\ SubSeq(f, m.pos, m.pos + Len(r.s) - 1) = r.s
             THEN <<[m EXCEPT !.pos = @ + Len(r.s)]>>
             ELSE <<>>
      [] r.op = "cls" ->
           IF m.pos <= Len(f) /\ InClass(CharAt(f, m.pos), r.c)
             THEN <<[m EXCEPT !.pos = @ + 1]>>
             ELSE <<>>
      [] r.op = "seq" -> RunSeq(r.rs, 1, f, <<m>>)
      [] r.op = "alt" -> RunAll(r.rs, 1, f, m)
      [] r.op = "opt" -> Run(r.r, f, m) \o <<m>>
      [] r.op = "star" -> RunStar(r.r, f, m)
      [] r.op = "plus" -> RunSeq(<<r.r, Star(r.r)>>, 1, f, <<m>>)
      [] r.op = "lazyplus" ->
           IF r.r.op = "cls"
             THEN [j \in 1..RunLength(r.r.c, f, m.pos) |-> [m EXCEPT !.pos = @ + j]]
             ELSE RunLazy(r.r, f, Run(r.r, f, m))
      [] r.op = "grp" ->
           LET ends == Run(r.r, f, m) IN
           IF ends = <<>> THEN <<>>
           ELSE [j \in 1..Len(ends) |->
                   [ends[j] EXCEPT !.g[r.n] = <<m.pos, ends[j].pos>>]]

\* rs[i], rs[i+1], ... in sequence, from each of the positions ms in turn.
RunSeq(rs, i, f, ms) ==
    IF ms = <<>> THEN <<>>
    ELSE IF i > Len(rs) THEN ms
    ELSE RunSeq(rs, i + 1, f, Run(rs[i], f, Head(ms)))
           \o RunSeq(rs, i, f, Tail(ms))

\* The alternatives rs[i], rs[i+1], ... from m.
RunAll(rs, i, f, m) ==
    IF i > Len(rs) THEN <<>> ELSE Run(rs[i], f, m) \o RunAll(rs, i + 1, f, m)

\* r* from m, greedy: one more r and then r* again, before stopping at m.
\* For a character class that is every end from the longest run of such
\* characters down to m itself.
RunStar(r, f, m) ==
    IF r.op = "cls"
      THEN LET n == RunLength(r.c, f, m.pos) IN
           [j \in 1..(n + 1) |-> [m EXCEPT !.pos = @ + n + 1 - j]]
      ELSE LET once == SelectSeq(Run(r, f, m), LAMBDA e : e.pos > m.pos) IN
           RunSeq(<<Star(r)>>, 1, f, once) \o <<m>>

\* r+? after a first r has ended at one of ms: stop there, before one more r.
RunLazy(r, f, ms) ==
    IF ms = <<>> THEN <<>>
    ELSE <<Head(ms)>> \o RunLazy(r, f, Run(r, f, Head(ms)))
           \o RunLazy(r, f, Tail(ms))

\* Pieces the table's expressions share.
Sp == Star(Cls("sep"))

Sp1 == Plus(Cls("sep"))

\* (?:a|b|...) over literal words.
OneOf(ws) == Alt([i \in DOMAIN ws |-> Lit(ws[i])])

\* word followed by an optional suffix: `stats?`, `temp(?:erature)?`.
Word(w, suffix) == Cat(<<Lit(w), Opt(Lit(suffix))>>)

ShowGetCheck == OneOf(<<"show", "get", "check">>)

ShowListGet == OneOf(<<"show", "list", "get">>)

CheckShow == OneOf(<<"check", "show">>)

\* (?:stats?|status|info)
StatsWord == Alt(<<Word("stat", "s"), Lit("status"), Lit("info")>>)

\* (?:rpm-?ostree|ostree)
OstreeWord == Alt(<<Cat(<<Lit("rpm"), Opt(Lit("-")), Lit("ostree")>>), Lit("ostree")>>)

\* (?:ostree|rpm-?ostree)
OstreeWordFirst == Alt(<<Lit("ostree"), Cat(<<Lit("rpm"), Opt(Lit("-")), Lit("ostree")>>)>>)

AnyPlus == Plus(Cls("any"))

\* An entry of PATTERNS: the expression between ^ and $, the category, the
\* action (agroup = 1 where the action is `lambda m: m.group(1)`) and the
\* name of the parameter extractor.
Entry(re, c, a, x) == [re |-> re, category |-> c, action |-> a, agroup |-> 0, extract |-> x]

GpuPatterns ==
    << Entry(Cat(<<ShowGetCheck, Sp, Opt(Cat(<<Lit("gpu"), Sp>>)), Lit("vram"),
                   Opt(Cat(<<Sp, Alt(<<Lit("usage"), Word("stat", "s")>>)>>))>>),
             "gpu", "vram", "none"),
       Entry(Lit("vram"), "gpu", "vram", "none"),
       Entry(Cat(<<OneOf(<<"gpu", "show", "get", "check">>), Sp, Word("temp", "erature")>>),
             "gpu", "temp", "none"),
       Entry(Cat(<<OneOf(<<"gpu", "rocm">>), Sp, StatsWord>>),
             "gpu", "stats", "none"),
       Entry(Cat(<<ShowGetCheck, Sp, OneOf(<<"gpu", "rocm">>),
                   Opt(Cat(<<Sp, StatsWord>>))>>),
             "gpu", "stats", "none") >>

GitPatterns ==
    << [Entry(Cat(<<Lit("git"), Sp1, Grp(1, OneOf(<<"status", "st", "diff", "log">>))>>),
              "git", "", "none") EXCEPT !.agroup = 1],
       Entry(Cat(<<OneOf(<<"show", "check">>), Sp, Opt(Cat(<<Lit("git"), Sp>>)),
                   OneOf(<<"status", "changes", "diff">>)>>),
             "git", "status", "none"),
       Entry(Cat(<<Lit("git"), Sp1, Lit("commit"), Sp1, Lit("-m"), Sp1, Lit("\""),
                   Grp(1, Plus(Cls("notquote"))), Lit("\"")>>),
             "git", "commit", "message") >>

AtomicPatterns ==
    << Entry(Cat(<<ShowGetCheck, Sp, OstreeWord, Sp, Opt(Lit("status"))>>),
             "atomic", "ostree_status", "none"),
       Entry(Cat(<<OstreeWordFirst, Sp, Lit("status")>>),
             "atomic", "ostree_status", "none"),
       Entry(Cat(<<CheckShow, Sp, Opt(Cat(<<Lit("system"), Sp>>)), Word("update", "s")>>),
             "atomic", "check_updates", "none"),
       Entry(Cat(<<OstreeWord, Sp, CheckShow, Sp, Word("update", "s")>>),
             "atomic", "check_updates", "none"),
       Entry(Cat(<<ShowListGet, Sp, Lit("layered"), Sp, Word("package", "s")>>),
             "atomic", "layered_packages", "none"),
       Entry(Cat(<<ShowListGet, Sp, Word("flatpak", "s"),
                   Opt(Cat(<<Sp, Word("app", "s")>>))>>),
             "atomic", "flatpaks", "none"),
       Entry(Cat(<<CheckShow, Sp, Lit("flatpak"), Sp, Word("update", "s")>>),
             "atomic", "flatpak_updates", "none"),
       Entry(Cat(<<ShowListGet, Sp, Word("toolbox", "es")>>),
             "atomic", "toolboxes", "none"),
       Entry(Cat(<<ShowListGet, Sp, OneOf(<<"distrobox", "toolbox">>), Sp,
                   Opt(Alt(<<Word("container", "s"), Lit("list")>>))>>),
             "atomic", "toolboxes", "none") >>

FilePatterns ==
    << Entry(Cat(<<OneOf(<<"read", "show", "cat">>), Sp1,
                   Opt(Cat(<<Lit("file"), Sp1>>)), Grp(1, AnyPlus)>>),
             "file", "read", "path"),
       Entry(Cat(<<OneOf(<<"write", "create">>), Sp1,
                   Opt(Cat(<<Lit("file"), Sp1>>)), Grp(1, AnyPlus)>>),
             "file", "write", "path"),
       Entry(Cat(<<OneOf(<<"list", "ls">>), Sp1, Grp(1, AnyPlus)>>),
             "file", "list", "path"),
       Entry(Cat(<<OneOf(<<"find", "search">>), Sp1, Opt(Cat(<<Lit("for"), Sp1>>)),
                   Grp(1, LazyPlus(Cls("any"))),
                   Opt(Cat(<<Sp1, Lit("in"), Sp1, Grp(2, AnyPlus)>>))>>),
             "file", "search", "search") >>

SystemPatterns ==
    << Entry(Cat(<<ShowGetCheck, Sp, OneOf(<<"mem", "memory", "ram">>),
                   Opt(Cat(<<Sp, Lit("usage")>>))>>),
             "system", "memory", "none"),
       Entry(Cat(<<ShowGetCheck, Sp, OneOf(<<"disk", "space", "storage">>),
                   Opt(Cat(<<Sp, Lit("usage")>>))>>),
             "system", "disk", "none"),
       Entry(Cat(<<OneOf(<<"systemctl", "service">>), Sp1, Lit("status"), Sp1,
                   Grp(1, AnyPlus)>>),
             "system", "service_status", "service"),
       Entry(Cat(<<OneOf(<<"check", "is">>), Sp1, Grp(1, LazyPlus(Cls("any"))), Sp1,
                   OneOf(<<"running", "active">>)>>),
             "system", "service_status", "service"),
       Entry(Cat(<<ShowGetCheck, Sp, Opt(OneOf(<<"system", "systemd">>)), Sp,
                   Alt(<<Word("log", "s"), Lit("journal")>>),
                   Opt(Cat(<<Sp, OneOf(<<"for", "from">>)>>)), Sp,
                   Grp(1, Star(Cls("any")))>>),
             "system", "logs", "filter"),
       Entry(Cat(<<OneOf(<<"list", "show">>), Sp, Opt(Cat(<<Lit("all"), Sp>>)),
                   Lit("services")>>),
             "system", "list_services", "none"),
       Entry(Cat(<<OneOf(<<"show", "get", "check", "list">>), Sp,
                   Alt(<<Word("processe", "s"), Word("proc", "s")>>),
                   Opt(Cat(<<Sp, Lit("list")>>))>>),
             "system", "processes", "none") >>

BuildPatterns ==
    << Entry(Cat(<<OneOf(<<"build", "compile", "make">>),
                   Opt(Cat(<<Sp1, Grp(1, AnyPlus)>>))>>),
             "build", "ninja", "target"),
       Entry(Cat(<<Lit("cmake"), Sp1, Grp(1, AnyPlus)>>),
             "build", "cmake", "args") >>

PackagePatterns ==
    << Entry(Cat(<<OneOf(<<"is", "check">>), Sp1, Grp(1, LazyPlus(Cls("any"))), Sp1,
                   Lit("installed")>>),
             "package", "check", "package"),
       Entry(Cat(<<Lit("pip"), Sp1, Lit("show"), Sp1, Grp(1, AnyPlus)>>),
             "package", "info", "package") >>

ProcessPatterns ==
    << Entry(Cat(<<OneOf(<<"show", "list", "ps">>), Sp, Opt(Word("processe", "s")),
                   Opt(Cat(<<Sp1, Grp(1, AnyPlus)>>))>>),
             "process", "list", "filter") >>

NetworkPatterns ==
    << Entry(Cat(<<OneOf(<<"port", "check">>), Sp1, Grp(1, Plus(Cls("digit")))>>),
             "network", "port_check", "port") >>

\* A table in which the file operations precede the atomic desktop queries.
PatternsFileBeforeAtomic ==
    GpuPatterns \o GitPatterns \o FilePatterns \o AtomicPatterns
      \o SystemPatterns \o BuildPatterns \o PackagePatterns
      \o ProcessPatterns \o NetworkPatterns

\* A table that begins with the file operations.
PatternsFileFirst ==
    FilePatterns \o GpuPatterns \o GitPatterns \o AtomicPatterns
      \o SystemPatterns \o BuildPatterns \o PackagePatterns
      \o ProcessPatterns \o NetworkPatterns

\* A table with the calc pattern the source's last comment says was removed.
PatternsWithCalc ==
    GpuPatterns \o GitPatterns \o AtomicPatterns \o FilePatterns
      \o SystemPatterns \o BuildPatterns \o PackagePatterns
      \o ProcessPatterns \o NetworkPatterns
      \o << Entry(Cat(<<Lit("what"), Sp1, Lit("is"), Sp1, Grp(1, AnyPlus)>>),
                  "calc", "eval", "args") >>

\* A table with an entry of the category the Intent dataclass's comment
\* names besides the others: 'llm'.
PatternsWithLlm ==
    << Entry(Cat(<<OneOf(<<"show", "build">>), Opt(Cat(<<Sp1, Grp(1, AnyPlus)>>))>>),
             "llm", "ask", "args") >>
      \o GpuPatterns \o GitPatterns \o AtomicPatterns \o FilePatterns
      \o SystemPatterns \o BuildPatterns \o PackagePatterns
      \o ProcessPatterns \o NetworkPatterns

\* A table that begins with an entry for the first action of
\* _handle_ublue_intent.
PatternsWithUblue ==
    << Entry(Cat(<<ShowGetCheck, Sp, Lit("image"), Sp, Lit("info")>>),
             "ublue", "image_info", "none") >>
      \o GpuPatterns \o GitPatterns \o AtomicPatterns \o FilePatterns
      \o SystemPatterns \o BuildPatterns \o PackagePatterns
      \o ProcessPatterns \o NetworkPatterns

\* IntentClassifier.PATTERNS, in the order of the source.
PATTERNS ==
    GpuPatterns \o GitPatterns \o AtomicPatterns \o FilePatterns
      \o SystemPatterns \o BuildPatterns \o PackagePatterns
      \o ProcessPatterns \o NetworkPatterns

\* pattern.match(query) for an expression `^re$`: the first position, in the
\* matcher's order, at which re ends at the end of the query; <<>> for no
\* match.  The queries are stripped, so `$` is the end of the string.
Match(re, f) ==
    LET full == SelectSeq(Run(re, f, StartOfMatch), LAMBDA e : e.pos = Len(f) + 1)
    IN IF full = <<>> THEN <<>> ELSE <<Head(full)>>

\* m.group(n): the text of the query the group matched, "" for a group that
\* took no part (None) or matched nothing.
Group(q, m, n) == IF m.g[n] = NoSpan THEN "" ELSE SubSeq(q, m.g[n][1], m.g[n][2] - 1)

\* The value None of a parameter.
PyNone == "<None>"

\* The param_extractor lambdas.
Extract(x, q, m) ==
    CASE x = "none"    -> [none |-> TRUE]
      [] x = "message" -> [message |-> Group(q, m, 1)]
      [] x = "path"    -> [path |-> Strip(Group(q, m, 1))]
      [] x = "search"  -> [pattern |-> Strip(Group(q, m, 1)),
                           path |-> IF Group(q, m, 2) # "" THEN Strip(Group(q, m, 2))
                                                          ELSE "."]
      [] x = "service" -> [service |-> Strip(Group(q, m, 1))]
      [] x = "filter"  -> [filter |-> IF Group(q, m, 1) # "" THEN Strip(Group(q, m, 1))
                                                            ELSE PyNone]
      [] x = "target"  -> [target |-> IF Group(q, m, 1) # "" THEN Strip(Group(q, m, 1))
                                                            ELSE "all"]
      [] x = "args"    -> [args |-> Strip(Group(q, m, 1))]
      [] x = "package" -> [package |-> Strip(Group(q, m, 1))]
      [] x = "port"    -> [port |-> ToInt(Group(q, m, 1))]

\* The Intent built from entry e and its match m of query q.
IntentOf(e, q, m) ==
    [category |-> e.category,
     action |-> IF e.agroup = 0 THEN e.action ELSE Group(q, m, e.agroup),
     params |-> Extract(e.extract, q, m)]

\* The loop of classify from the i-th compiled pattern on.
RECURSIVE ClassifyFrom(_, _, _, _)
ClassifyFrom(cp, i, q, f) ==
    IF i > Len(cp) THEN NoIntent
    ELSE LET m == Match(cp[i].re, f) IN
         IF m # <<>> THEN IntentOf(cp[i], q, m[1])
         ELSE ClassifyFrom(cp, i + 1, q, f)

\* The sequence s from its last element to its first.
Reverse(s) == [i \in 1..Len(s) |-> s[Len(s) + 1 - i]]

\* A classifier that keeps its last result and returns it again where the
\* loop finds no match.
ClassifySticky(text) ==
    LET q == Strip(text)
        found_now == ClassifyFrom(PATTERNS, 1, q, Fold(q))
    IN IF found_now = NoIntent /\ calls # <<>> THEN calls[Len(calls)].intent
       ELSE found_now

\* A classify whose loop runs over the table from its last entry to its first.
ClassifyLast(text) ==
    LET q == Strip(text) IN ClassifyFrom(Reverse(PATTERNS), 1, q, Fold(q))

\* IntentClassifier.classify(text): strip, then the loop over the compiled
\* patterns, which __init__ builds from PATTERNS in order.
Classify(text) ==
    LET q == Strip(text) IN ClassifyFrom(PATTERNS, 1, q, Fold(q))

\* The queries classified.  The words and the separators the phrases are
\* built from, up to MaxWords words to a phrase.
Words ==
    {"show", "list", "check", "read", "gpu", "vram", "temp", "stats", "status",
     "git", "ostree", "updates", "flatpaks", "toolboxes", "services",
     "processes", "logs", "file", "/tmp/test.txt", "what"}

Separators == {" ", "-"}

RECURSIVE Phrases(_)
Phrases(n) ==
    IF n = 1 THEN Words
    ELSE LET shorter == Phrases(n - 1) IN
         shorter \cup {p \o s \o w : p \in shorter, s \in Separators, w \in Words}

\* The queries of test_classifier.
TestCases ==
    {"gpu stats", "show gpu vram", "git status", "read /tmp/test.txt",
     "find python files in /home", "is llama-server running", "build rocm",
     "what is 15 factorial", "explain how async works in Python"}

\* The queries RAIShell._show_help lists.
HelpQueries ==
    {"gpu stats", "vram", "gpu temp", "show gpu", "check memory", "check disk",
     "list services", "list processes", "show logs", "is nginx running",
     "read /path/to/file", "list /path/to/dir", "search x in /path",
     "what is 15 factorial"}

\* Further queries: other cases and paddings of the above, the examples of
\* the table's comments, paths that begin with a separator or with `file`,
\* and queries that name what _handle_ublue_intent handles.
OtherQueries ==
    {"GPU Stats", "  gpu stats\t", "Git Status", "git STATUS", "git st",
     "  show gpu vram  ", "SHOW GPU VRAM", "showlogs", "show flatpaks",
     "list toolboxes", "show ostree status", "show rpm-ostree status",
     "show updates", "check system updates", "show flatpak updates",
     "list layered packages", "show distrobox containers", "show all services",
     "read -x", "read file /tmp/test.txt", "read  /tmp/test.txt ",
     "READ /tmp/Test.txt", "read file", "please show gpu vram",
     "show gpu vram now", "gpu stats please", "tell me the gpu stats",
     "show gpu temperature", "get vram usage", "check 8080", "port 0080",
     "git commit -m \"fix\"", "show logs for nginx", "build", "ps aux", "ps",
     "find x", "is vim installed", "pip show numpy", "cmake ..", "",
     "show image info", "list ujust recipes", "check gaming status"}

Queries == Phrases(MaxWords) \cup TestCases \cup HelpQueries \cup OtherQueries

\* The queries of a session of several classify calls.
SessionQueries ==
    {"gpu stats", "show gpu vram", "git status", "Git Status",
     "read /tmp/test.txt", "list services", "what is 15 factorial", "show logs"}

\* IntentClassifier.should_use_llm.
ShouldUseLlm(text) == Classify(text) = NoIntent

\* One classify call and what it returned.
Call(q, i) == [query |-> q, intent |-> i]

\* An entry point that only classifies: one call, or a session of several.
InitClassifier(E, Q) ==
    /\ entry \in E
    /\ exists = [p \in OptionalPeers |-> TRUE]
    /\ phase = "classify"
    /\ k = 1
    /\ hs = "none"
    /\ servers = <<>>
    /\ process = [p \in Peers |-> "none"]
    /\ request_id = [p \in Peers |-> 0]
    /\ tools = [p \in Peers |-> <<>>]
    /\ peer = [p \in Peers |-> "unspawned"]
    /\ stdin = [p \in Peers |-> <<>>]
    /\ stdout = [p \in Peers |-> <<>>]
    /\ sent = [p \in Peers |-> <<>>]
    /\ wrote = [p \in Peers |-> <<>>]
    /\ lost = {}
    /\ failed = Untracked
    /\ faults = 0
    /\ pc = [t \in Threads |-> "idle"]
    /\ call = [t \in Threads |-> NoCall]
    /\ ret = [t \in Threads |-> NoRet]
    /\ route = NoRoute
    /\ qres = "none"
    /\ llmReqs = 0
    /\ toolReqs = 0
    /\ llmOutcome = "none"
    /\ nq = 0
    /\ ns = 0
    /\ statsStep = 1
    /\ termReq = [p \in Peers |-> FALSE]
    /\ stopRaised = FALSE
    /\ initFailed = "none"
    /\ ops = <<>>
    /\ found = None
    /\ spawned = [p \in Peers |-> 0]
    /\ signals = [p \in Peers |-> 0]
    /\ query \in Q
    /\ calls = <<>>
    /\ server = "none"
    /\ serving = "ended"
    /\ served = <<>>
    /\ out = <<>>
    /\ intent = NoIntent

InitClassify == InitClassifier({"classify"}, Queries)

InitSession == InitClassifier({"session"}, SessionQueries)

\* The first statements of process_query: `intent = self.classifier.classify(
\* query)`, then the choice between _execute_intent and _query_llm, which
\* fixes the route.  In a session the caller then takes up its next query.
ClassifyCall ==
    /\ phase = "classify"
    /\ Len(calls) < (IF entry = "session" THEN MaxClassifyCalls ELSE 1)
    /\ calls' = Append(calls, Call(query, Classify(query)))
    /\ route' = ExecuteIntent(Classify(query))
    /\ IF entry = "session" THEN query' \in SessionQueries ELSE query' = query
    /\ UNCHANGED <<mainVars, clientVars, wireVars, threadVars, qres, llmReqs, toolReqs,
                   llmOutcome, nq, statsVars, apiVars, serverVars, intent>>

\* ------------------------------------------------------ the bundled servers
\* rocm_server.py, atomic_server.py and ublue_server.py each read lines from
\* stdin in a loop, `run`, and print at most one line per line read.

BundledServers == {"rocm", "atomic", "ublue"}

\* The methods a line may name: the four the servers know and one they do not.
Methods == {"initialize", "initialized", "tools/list", "tools/call", "other"}

\* A line of stdin.  kind "object": a JSON object, with its method, its id
\* (NoId where it has none) and, for tools/call, its params: naming a tool
\* the server has ("known"), naming one it has not ("unknown"), or not a JSON
\* object ("bad").  kind "value": JSON that is not an object, such as [1].
\* kind "garbage": text json.loads raises JSONDecodeError on, a blank line
\* included.
ObjectLine(m, i, p) == [kind |-> "object", method |-> m, id |-> i, params |-> p]

ValueLine == [kind |-> "value", method |-> "none", id |-> NoId, params |-> "none"]

GarbageLine == [kind |-> "garbage", method |-> "none", id |-> NoId, params |-> "none"]

InputLines ==
    {ObjectLine(m, i, "none") : m \in Methods \ {"tools/call"}, i \in {NoId, 1}}
      \cup {ObjectLine("tools/call", i, p) :
               i \in {NoId, 1}, p \in {"known", "unknown", "bad"}}
      \cup {ValueLine, GarbageLine}

\* A printed line: a result, or an error with its code, and the id member.
Result(i) == [kind |-> "result", code |-> 0, id |-> i]

Error(c, i) == [kind |-> "error", code |-> c, id |-> i]

\* What handling one line comes to: the lines printed and whether run goes on.
Printed(r) == [prints |-> <<r>>, crash |-> FALSE]

Silent == [prints |-> <<>>, crash |-> FALSE]

Crash == [prints |-> <<>>, crash |-> TRUE]

\* ROCmMCPServer.handle_request for a JSON object: Silent for None, the
\* response otherwise.  `params.get` on params that are no object raises, and
\* the exception leaves handle_request.
HandleRequestRaises(l) == l.id # NoId /\ l.method = "tools/call" /\ l.params = "bad"

handle_request(l) ==
    IF l.id = NoId THEN Silent
    ELSE IF l.method \in {"initialize", "tools/list"} THEN Printed(Result(l.id))
    ELSE IF l.method = "tools/call"
      THEN IF l.params = "unknown" THEN Printed(Error(-32601, l.id))
           ELSE Printed(Result(l.id))
    ELSE Printed(Error(-32601, l.id))

\* One turn of ROCmMCPServer.run on the line l: json.loads, handle_request,
\* print; JSONDecodeError prints the -32700 error, any other exception
\* (request.get on a value that is no object, or one from handle_request)
\* the -32603 error, both with id None.
RocmRun(l) ==
    IF l.kind = "garbage" THEN Printed(Error(-32700, NoId))
    ELSE IF l.kind = "value" \/ HandleRequestRaises(l) THEN Printed(Error(-32603, NoId))
    ELSE handle_request(l)

\* One turn of AtomicServer.run on the line l.  JSONDecodeError: `continue`.  request.get on a value
\* that is no object raises inside the try block and again inside the
\* `except Exception` block (`request.get("id")`), so the exception leaves
\* run.  params.get on params that are no object raises, and the except block
\* prints the -32603 error with the id of the request, None included.
\* Otherwise the response is printed only `if req_id is not None`.
AtomicRun(l) ==
    IF l.kind = "garbage" THEN Silent
    ELSE IF l.kind = "value" THEN Crash
    ELSE IF l.method = "initialized" THEN Silent
    ELSE IF l.method = "tools/call" /\ l.params = "bad" THEN Printed(Error(-32603, l.id))
    ELSE IF l.id = NoId THEN Silent
    ELSE IF l.method \in {"initialize", "tools/list", "tools/call"}
      THEN Printed(Result(l.id))
    ELSE Printed(Error(-32601, l.id))

\* One turn of UBlueServer.run: the text of AtomicServer.run.
UblueRun(l) == AtomicRun(l)

\* The run loop of the server s, one turn.
Run1(s, l) ==
    IF s = "rocm" THEN RocmRun(l)
    ELSE IF s = "atomic" THEN AtomicRun(l)
    ELSE UblueRun(l)

\* The state at the start of `run` of one of the bundled servers.
InitServer ==
    /\ entry = "server"
    /\ exists = [p \in OptionalPeers |-> TRUE]
    /\ phase = "serve"
    /\ k = 1
    /\ hs = "none"
    /\ servers = <<>>
    /\ process = [p \in Peers |-> "none"]
    /\ request_id = [p \in Peers |-> 0]
    /\ tools = [p \in Peers |-> <<>>]
    /\ peer = [p \in Peers |-> "unspawned"]
    /\ stdin = [p \in Peers |-> <<>>]
    /\ stdout = [p \in Peers |-> <<>>]
    /\ sent = [p \in Peers |-> <<>>]
    /\ wrote = [p \in Peers |-> <<>>]
    /\ lost = {}
    /\ failed = Untracked
    /\ faults = 0
    /\ pc = [t \in Threads |-> "idle"]
    /\ call = [t \in Threads |-> NoCall]
    /\ ret = [t \in Threads |-> NoRet]
    /\ route = NoRoute
    /\ qres = "none"
    /\ llmReqs = 0
    /\ toolReqs = 0
    /\ llmOutcome = "none"
    /\ nq = 0
    /\ ns = 0
    /\ statsStep = 1
    /\ termReq = [p \in Peers |-> FALSE]
    /\ stopRaised = FALSE
    /\ initFailed = "none"
    /\ ops = <<>>
    /\ found = None
    /\ spawned = [p \in Peers |-> 0]
    /\ signals = [p \in Peers |-> 0]
    /\ query = ""
    /\ calls = <<>>
    /\ server \in BundledServers
    /\ serving = "running"
    /\ served = <<>>
    /\ out = <<>>
    /\ intent = NoIntent

\* What no turn of a run loop changes.
clientSide ==
    <<mainVars, clientVars, wireVars, threadVars, queryVars, statsVars, apiVars,
      classifierVars, intent>>

\* One turn of the loop: a line is read and handled.  Each printed line is
\* kept with the index of the line it was printed for.
ServeLine(s, l) ==
    /\ phase = "serve"
    /\ server = s
    /\ serving = "running"
    /\ Len(served) < MaxLines
    /\ served' = Append(served, l)
    /\ out' = out \o [i \in DOMAIN Run1(s, l).prints |->
                        [line |-> Len(served) + 1, response |-> Run1(s, l).prints[i]]]
    /\ serving' = IF Run1(s, l).crash THEN "crashed" ELSE "running"
    /\ UNCHANGED <<server, clientSide>>

RocmServes == \E l \in InputLines : ServeLine("rocm", l)

AtomicServes == \E l \in InputLines : ServeLine("atomic", l)

UblueServes == \E l \in InputLines : ServeLine("ublue", l)

\* stdin is at its end: readline returns '' and rocm's loop breaks, the `for
\* line in sys.stdin` of the two others ends.
StdinCloses ==
    /\ phase = "serve"
    /\ serving = "running"
    /\ serving' = "ended"
    /\ UNCHANGED <<server, served, out, clientSide>>

NextServer ==
    \/ RocmServes
    \/ AtomicServes
    \/ UblueServes
    \/ StdinCloses

\* ------------------------------------------- the router and the bundled peers
\* The actions the handlers of _execute_intent compare intent.action with,
\* and one they do not.
RouterActions ==
    {"read", "write", "list", "search", "stats", "vram", "temp", "status",
     "memory", "disk", "service_status", "list_services", "processes", "logs",
     "ostree_status", "check_updates", "layered_packages", "flatpaks",
     "flatpak_updates", "toolboxes", "image_info", "image_updates",
     "build_type", "list_recipes", "run_recipe", "gaming_status",
     "build_tools", "list_images", "containerfile_template",
     "github_workflow", "other"}

\* The Intents _execute_intent may be called with: the categories it has a
\* branch for and one it has none for, with every action.
RouterIntents ==
    {[category |-> c, action |-> a] :
        c \in {"file", "gpu", "git", "system", "atomic", "ublue", "build"},
        a \in RouterActions}

\* The names a bundled server executes: the keys of tool_map in
\* handle_tool_call (atomic, ublue), the keys of self.tools that are methods
\* of the class (rocm).  In each server they are the names of its tools/list.
ToolMap(p) == {Catalog(p)[i] : i \in DOMAIN Catalog(p)}

\* The tools/call line call_tool writes for the tool t, as the server p
\* takes it.
ToolCallLine(p, t) ==
    ObjectLine("tools/call", 1, IF t \in ToolMap(p) THEN "known" ELSE "unknown")

\* The state in which _execute_intent is called with some Intent, every
\* bundled peer registered and idle.
InitRouter ==
    /\ entry = "router"
    /\ exists = [p \in OptionalPeers |-> TRUE]
    /\ phase = "execute"
    /\ k = 1
    /\ hs = "none"
    /\ servers = <<>>
    /\ process = [p \in Peers |-> "none"]
    /\ request_id = [p \in Peers |-> 0]
    /\ tools = [p \in Peers |-> <<>>]
    /\ peer = [p \in Peers |-> "unspawned"]
    /\ stdin = [p \in Peers |-> <<>>]
    /\ stdout = [p \in Peers |-> <<>>]
    /\ sent = [p \in Peers |-> <<>>]
    /\ wrote = [p \in Peers |-> <<>>]
    /\ lost = {}
    /\ failed = Untracked
    /\ faults = 0
    /\ pc = [t \in Threads |-> "idle"]
    /\ call = [t \in Threads |-> NoCall]
    /\ ret = [t \in Threads |-> NoRet]
    /\ route = NoRoute
    /\ qres = "none"
    /\ llmReqs = 0
    /\ toolReqs = 0
    /\ llmOutcome = "none"
    /\ nq = 0
    /\ ns = 0
    /\ statsStep = 1
    /\ termReq = [p \in Peers |-> FALSE]
    /\ stopRaised = FALSE
    /\ initFailed = "none"
    /\ ops = <<>>
    /\ found = None
    /\ spawned = [p \in Peers |-> 0]
    /\ signals = [p \in Peers |-> 0]
    /\ query = ""
    /\ calls = <<>>
    /\ server = "none"
    /\ serving = "ended"
    /\ served = <<>>
    /\ out = <<>>
    /\ intent \in RouterIntents

\* _execute_intent(intent): the handler of the category fixes the route.  A
\* route to a bundled peer is a tools/call on the stdin of that server.
Dispatch ==
    /\ phase = "execute"
    /\ route' = ExecuteIntent(intent)
    /\ phase' = "dispatched"
    /\ server' = IF route'.kind = "tool" /\ route'.peer \in BundledServers
                   THEN route'.peer
                   ELSE "none"
    /\ serving' = IF server' = "none" THEN "ended" ELSE "running"
    /\ UNCHANGED <<entry, exists, k, hs, termReq, stopRaised, initFailed,
                   clientVars, wireVars, threadVars, qres, llmReqs, toolReqs, llmOutcome,
                   nq, statsVars, apiVars, classifierVars, served, out, intent>>

\* The bundled peer reads the tools/call line and handles it.
BundledPeerAnswers ==
    /\ phase = "dispatched"
    /\ server \in BundledServers
    /\ served = <<>>
    /\ LET l == ToolCallLine(server, route.tool) IN
         /\ served' = <<l>>
         /\ out' = [i \in DOMAIN Run1(server, l).prints |->
                       [line |-> 1, response |-> Run1(server, l).prints[i]]]
         /\ serving' = IF Run1(server, l).crash THEN "crashed" ELSE "running"
    /\ UNCHANGED <<server, clientSide>>

NextRouter ==
    \/ Dispatch
    \/ BundledPeerAnswers

\* ------------------------------------------------------- the specifications
MainStep ==
    \/ SkipServer
    \/ AddServer
    \/ SpawnFails
    \/ InitializeReturns
    \/ SendNotification
    \/ ToolsListReturns
    \/ InitializeCompletes
    \/ InitFailureHandled
    \/ \E i \in QueryInputs : ProcessQuery(i)
    \/ ToolCallReturns
    \/ QueryReturns
    \/ Exit
    \/ StopServer
    \/ StopServerTimesOut
    \/ StopAllReturns
    \/ MainSend

\* rai.py main and RAIShell.run: one thread.
Next == MainStep \/ PeerStep

Spec == Init /\ [][Next]_vars

\* RAITUI: the main thread and the stats thread.
NextTUI == MainStep \/ PeerStep \/ StatsStartCall \/ StatsCallReturns \/ StatsSend

SpecTUI == InitTUI /\ [][NextTUI]_vars

\* RAIShell.run: the REPL of rai-shell.py.
SpecShell == InitShell /\ [][Next]_vars

\* A caller of MCPClient: any sequence of its method calls.
NextApi ==
    \/ \E p \in ApiPeers : ApiAddServer(p)
    \/ \E t \in ToolNames : ApiFindTool(t)
    \/ \E p \in ApiPeers : ApiStop(p)
    \/ \E p \in ApiPeers : ApiStopTimesOut(p)
    \/ ApiStopAll

SpecApi == InitApi /\ [][NextApi]_vars

\* classify applied to one query.
SpecClassify == InitClassify /\ [][ClassifyCall]_vars

\* A session of classify calls on one IntentClassifier.
SpecSession == InitSession /\ [][ClassifyCall]_vars

\* One of the bundled servers, fed lines on its stdin.
SpecServer == InitServer /\ [][NextServer]_vars

\* _execute_intent on any Intent, and the bundled peer it calls.
SpecRouter == InitRouter /\ [][NextRouter]_vars

\* ------------------------------------------------------------- properties
\* The threads with a tools/call in flight on p: the request line is written,
\* the response line is not yet read.
InFlight(p) ==
    {t \in Threads :
        call[t].peer = p /\ call[t].method = "tools/call" /\ pc[t] = "sr_read"}

ResultCarriesRequestId ==
    \A t \in Threads :
        (pc[t] = "sr_done" /\ call[t].method = "tools/call" /\ ret[t].status = "ok")
            => ret[t].id = call[t].rid

NoStopWhileCallInFlight ==
    [][\A p \in Peers : (~termReq[p] /\ termReq'[p]) => InFlight(p) = {}]_vars

\* C5: a tools/call to a peer that stays alive and never writes a response
\* line does not block forever: while it waits on such a peer, the call can
\* end (by a timeout).
HungCallTimesOut ==
    \A t \in Threads :
        (/\ pc[t] = "sr_read"
         /\ call[t].method = "tools/call"
         /\ peer[call[t].peer] = "hung"
         /\ stdout[call[t].peer] = <<>>)
            => ENABLED SrRead(t)

\* C6: fault isolation between peers.  A tools/call whose read finds the
\* peer's stream at its end fails with the closed-connection error; a
\* tools/call fails disconnected only if its own peer's stream is closed or
\* its process gone, so a call on another, healthy peer that reads that
\* peer's result line returns it; and the step in which a call fails
\* disconnected changes nothing of any other connection nor the registry.
EofFailureIsIsolated ==
    [][\A t \in Threads :
         LET p == call[t].peer IN
           (/\ call[t].method = "tools/call"
            /\ pc[t] \in {"sr_write", "sr_read"}
            /\ pc'[t] = "sr_done")
           =>
           /\ (pc[t] = "sr_read" /\ stdout[p] = <<>> /\ peer[p] \in {"eof", "exited"})
                 => ret'[t].status = "closed"
           /\ (pc[t] = "sr_read" /\ stdout[p] # <<>> /\ Head(stdout[p]).kind = "result")
                 => (ret'[t].status = "ok" /\ ret'[t].kind = "result")
           /\ ret'[t].status \in Disconnected
                 => /\ peer[p] \in {"eof", "exited"}
                    /\ servers' = servers
                    /\ \A q \in Peers \ {p} :
                         /\ process'[q] = process[q]
                         /\ request_id'[q] = request_id[q]
                         /\ tools'[q] = tools[q]
                         /\ peer'[q] = peer[q]
                         /\ stdin'[q] = stdin[q]
                         /\ stdout'[q] = stdout[q]
      ]_vars

\* C6, the case: a tools/call on one registered peer has failed disconnected,
\* and a later tools/call on another registered peer has returned the result
\* line that answers it.
LaterCallOnOtherPeerSucceeds ==
    \E p \in lost :
        /\ Registered(p)
        /\ call[MainThread].peer # p
        /\ Registered(call[MainThread].peer)
        /\ call[MainThread].method = "tools/call"
        /\ pc[MainThread] = "sr_done"
        /\ ret[MainThread].status = "ok"
        /\ ret[MainThread].kind = "result"
        /\ ret[MainThread].id = call[MainThread].rid

\* C7: tool-level errors never escape process_query: a query whose routed
\* tool call fails (a JSON-RPC error, a closed stream, a peer name that is not
\* registered) ends with a string, not with an exception.
ToolErrorsStayInProcessQuery ==
    (phase = "query_done" /\ route.kind = "tool") => qres # "raised"

\* C8: the LLM path is a total fallback: a query that classifies to none or to
\* an intent without a tool route is forwarded to the LLM, whose answer
\* process_query returns.
LlmIsTotalFallback ==
    (phase = "query_done" /\ route.kind # "tool")
        => (llmReqs = 1 /\ qres \in {"llm_answer", "llm_error_text"})

\* C9: stop_all is best-effort: when it has ended, termination has been
\* requested of every registered peer, whichever stop() failed.
StopAllReachesEveryPeer ==
    phase = "done" => \A j \in DOMAIN servers : termReq[servers[j]]

\* C10: a startup failure of one peer is isolated: once initialize has ended
\* with the spawn or the handshake of one configured peer failed, every other
\* configured peer is registered.
StartupFailureIsIsolated ==
    (initFailed # "none" /\ phase \in {"shutdown", "done"})
        => \A i \in DOMAIN ConfiguredPeers :
             (Configured(ConfiguredPeers[i]) /\ ConfiguredPeers[i] # initFailed)
                 => Registered(ConfiguredPeers[i])

IsPrefix(a, b) == Len(a) <= Len(b) /\ \A i \in DOMAIN a : a[i] = b[i]

\* C12: if a handshake step of start() fails (the response carries an error,
\* is not parseable, or the stream is at its end), add_server fails with that
\* same error, no later handshake message is written to that peer, and the
\* registry is as it was before the call: the peer is not registered.
HandshakeFailureLeavesRegistry ==
    [][LET m == MainThread
           p == call[MainThread].peer
       IN
       /\ (phase = "init" /\ pc[m] = "sr_read" /\ pc'[m] = "sr_done"
              /\ (stdout[p] = <<>>
                    \/ Head(stdout[p]).kind \in {"error", "garbage", "scalar"}))
            => ret'[m].status \notin {"ok", "none"}
       /\ (phase = "init" /\ pc[m] = "sr_done" /\ pc'[m] # "sr_done"
              /\ ret[m].status # "ok")
            => (phase' = "init_failed" /\ initFailed' = p /\ ret'[m] = ret[m])
       /\ (phase = "init" /\ phase' = "init_failed")
            => /\ servers' = servers
               /\ tools' = tools
               /\ wrote' = wrote
               /\ \A j \in DOMAIN servers' : servers'[j] # initFailed'
       /\ initFailed # "none"
            => /\ wrote'[initFailed] = wrote[initFailed]
               /\ servers' = servers
      ]_vars

\* C12, the case: with one peer registered, the handshake of the next has
\* failed on a response line or on the end of the stream.
HandshakeFailedAfterRegistration ==
    /\ phase = "init_failed"
    /\ servers # <<>>
    /\ ret[MainThread].status \in {"mcp_error", "json_error", "closed"}
    /\ wrote[initFailed] # <<>>

\* C13: the handshake lines are written in the order initialize,
\* initialized, tools/list with nothing in between; the notification is
\* written only after the initialize result has been read; the catalog is
\* the tools array of the peer's tools/list result; and the peer is
\* registered only after that.
HandshakeInOrder ==
    \A p \in Peers :
        /\ IsPrefix(wrote[p], Handshake) \/ IsPrefix(Handshake, wrote[p])
        /\ Len(wrote[p]) >= 2
             => /\ \A i \in DOMAIN stdin[p] : stdin[p][i].method # "initialize"
                /\ \A i \in DOMAIN stdout[p] : stdout[p][i].of # "initialize"
        /\ Registered(p)
             => (IsPrefix(Handshake, wrote[p]) /\ tools[p] = Catalog(p))

\* C14: a tools/call fails with the remote-tool error exactly when the
\* response line it reads carries an error object, and then no content is
\* returned to the caller.
RemoteErrorIffErrorLine ==
    [][\A t \in Threads :
         LET p == call[t].peer IN
         /\ (call[t].method = "tools/call" /\ pc[t] # "sr_done" /\ pc'[t] = "sr_done")
              => (ret'[t].status = "mcp_error"
                    <=> (/\ pc[t] = "sr_read"
                         /\ stdout[p] # <<>>
                         /\ Head(stdout[p]).kind = "error"
                         /\ stdout'[p] = Tail(stdout[p])))
         /\ (t = MainThread /\ phase = "query" /\ phase' = "query_done"
               /\ ret[t].status = "mcp_error")
              => qres' = "raised"
      ]_vars

\* C14, the case: a tools/call has read a line with an error object and has
\* ended with the remote-tool error.
RemoteErrorRaised ==
    /\ phase = "query_done"
    /\ call[MainThread].method = "tools/call"
    /\ ret[MainThread].status = "mcp_error"
    /\ qres = "raised"

\* C15: a response line that is not a well-formed response envelope (not
\* JSON, not an object, or an object with neither result nor error) makes the
\* tools/call fail; it is never turned into a successful return value.
MalformedLineRaises ==
    \A t \in Threads :
        (pc[t] = "sr_done" /\ call[t].method = "tools/call" /\ ret[t].status = "ok")
            => ret[t].kind = "result"

\* C16: a tools/call through the manager returns exactly the content array of
\* the peer's result for this tools/call: when the call returns, the peer has
\* written the result line that answers this request, and the value returned
\* is that line's content array.
ReturnsContentOfResult ==
    [][\A t \in Threads :
         LET p == call[t].peer IN
         (/\ call[t].method = "tools/call"
          /\ pc[t] = "sr_read"
          /\ pc'[t] = "sr_done"
          /\ ret'[t].status = "ok")
         => \E i \in DOMAIN stdout[p] :
              /\ stdout[p][i].id = call[t].rid
              /\ stdout[p][i].kind = "result"
              /\ stdout[p][i].of = "tools/call"
              /\ CallToolReturn(ret'[t]) = stdout[p][i].content
      ]_vars

\* C17: the manager's call_tool with a name that is not registered fails
\* with the unknown-server error, writes no line to any peer and changes no
\* request counter; with a registered name it forwards one tools/call to that
\* peer: while the call runs one line is written, a tools/call to that peer,
\* and nothing is written to any other peer.
UnknownServerWritesNothing ==
    [][LET m == MainThread IN
       /\ LET r == route' IN
            (phase = "serve" /\ phase' # "serve" /\ r.kind = "tool")
              => IF \E j \in DOMAIN servers : servers[j] = r.peer
                   THEN /\ phase' = "query"
                        /\ call'[m] = NewCall(r.peer, "tools/call")
                        /\ wrote' = wrote
                   ELSE /\ phase' = "query_done"
                        /\ ret'[m].status = "unknown_server"
                        /\ qres' = "raised"
                        /\ wrote' = wrote
                        /\ stdin' = stdin
                        /\ request_id' = request_id
                        /\ pc'[m] = "idle"
       /\ (phase = "query" /\ wrote' # wrote)
            => /\ pc[m] = "sr_write" /\ pc'[m] = "sr_read"
               /\ wrote' = [wrote EXCEPT ![call[m].peer] = Append(@, "tools/call")]
               /\ call[m].peer = route.peer
      ]_vars

\* C17, the case: a query routed to a peer that is not registered has ended
\* with the unknown-server error.
UnknownServerRaised ==
    /\ phase = "query_done"
    /\ route.kind = "tool"
    /\ ret[MainThread].status = "unknown_server"
    /\ servers # <<>>

\* C20: a failure of the LLM request (connection failure, timeout, a body
\* that is not JSON or lacks the choices/message/content path) makes the LLM
\* path return a textual error string; no exception escapes from it.
LlmFailureIsText ==
    (phase = "query_done" /\ route.kind = "llm")
        => /\ qres # "raised"
           /\ llmOutcome # "answer" => qres = "llm_error_text"
           /\ llmOutcome = "answer" => qres = "llm_answer"

\* C20, the case: the body of the LLM response was not JSON and the query
\* ended with the error text.
LlmBodyNotJson ==
    /\ phase = "query_done"
    /\ route.kind = "llm"
    /\ llmOutcome = "non_json"
    /\ qres = "llm_error_text"

\* The method call made last by the caller.
LastOp == ops[Len(ops)]

\* The step is the caller's call of method n with argument a.
Invokes(n, a) == ops' = Append(ops, Op(n, a))

\* The positions in the registry whose catalog holds the tool name t.
Holders(t) == {j \in DOMAIN servers : Has(tools[servers[j]], t)}

\* C11: add_server with a name that is already registered fails with a
\* duplicate-server error, spawns no second process and leaves the existing
\* registration, its connection and its catalog, unchanged.
DuplicateAddRejected ==
    [][\A p \in ApiPeers :
         (Registered(p) /\ Invokes("add_server", p))
           => /\ ret'[MainThread].status = "duplicate_server"
              /\ spawned' = spawned
              /\ UNCHANGED <<servers, process, request_id, tools, peer>>
      ]_vars

\* C18: find_tool(t) returns (p, t) for the server p that stands first in
\* registration order among those whose catalog holds t, also when a server
\* registered later advertises t too, and returns None exactly when no
\* registered server's catalog holds t.
FindToolEarliestWins ==
    (ops # <<>> /\ LastOp.name = "find_tool")
      => LET t == LastOp.arg IN
         /\ found = None <=> Holders(t) = {}
         /\ found # None
              => \E j \in Holders(t) :
                   /\ \A i \in Holders(t) : j <= i
                   /\ found = <<servers[j], t>>

\* C18, the case: two registered servers advertise the tool name looked up
\* and find_tool has returned the one registered first.
FoundAmongTwoHolders ==
    /\ ops # <<>>
    /\ LastOp.name = "find_tool"
    /\ Cardinality(Holders(LastOp.arg)) = 2
    /\ found = <<servers[1], LastOp.arg>>

LastCall == calls[Len(calls)]

\* Does entry i of the table match the stripped query of folded form f.
Matches(i, f) == Match(PATTERNS[i].re, f) # <<>>

\* The entries of the table that match the stripped query q, by index.
Hits(q) == LET f == Fold(q) IN {i \in DOMAIN PATTERNS : Matches(i, f)}

\* The Intent entry i alone produces for the stripped query q.
IntentUnder(i, q) == IntentOf(PATTERNS[i], q, Match(PATTERNS[i].re, Fold(q))[1])

\* Does the string s contain w.
Contains(s, w) ==
    \E i \in 1..Len(s) : i + Len(w) - 1 <= Len(s) /\ SubSeq(s, i, i + Len(w) - 1) = w

\* Does the string s begin with w.
StartsWith(s, w) == Len(w) <= Len(s) /\ SubSeq(s, 1, Len(w)) = w

\* C21: first match wins.  classify returns the category, action and
\* parameters that the lowest-indexed entry matching the stripped query
\* produces, whatever later entries match as well, and None exactly when no
\* entry matches.
FirstMatchWins ==
    calls # <<>>
      => LET q == Strip(LastCall.query)
             f == Fold(q)
         IN IF LastCall.intent = NoIntent
            THEN \A i \in DOMAIN PATTERNS : ~Matches(i, f)
            ELSE \E i \in DOMAIN PATTERNS :
                   /\ LastCall.intent.category = PATTERNS[i].category
                   /\ Matches(i, f)
                   /\ \A j \in 1..(i - 1) : ~Matches(j, f)
                   /\ LastCall.intent = IntentUnder(i, q)

\* C21, the case: the query is matched by several entries that produce
\* different intents, and classify has returned the intent of the first.
SeveralEntriesMatch ==
    /\ calls # <<>>
    /\ LET q == Strip(LastCall.query) IN
         \E i, j \in Hits(q) :
            /\ i < j
            /\ IntentUnder(i, q) # IntentUnder(j, q)
            /\ LastCall.intent = IntentUnder(i, q)
            /\ \A h \in Hits(q) : i <= h

\* C22: the queries the shell's help lists as system queries, 'list
\* services', 'list processes' and 'show logs', are classified system
\* (list_services, processes, logs) and routed to the linux peer, not to a
\* file operation on the filesystem peer.
HelpSystemQueriesReachLinux ==
    /\ (calls # <<>> /\ LastCall.query = "list services")
         => /\ LastCall.intent.category = "system"
            /\ LastCall.intent.action = "list_services"
            /\ route = ToolRoute("linux", "list_services")
    /\ (calls # <<>> /\ LastCall.query = "list processes")
         => /\ LastCall.intent.category = "system"
            /\ LastCall.intent.action = "processes"
            /\ route = ToolRoute("linux", "list_processes")
    /\ (calls # <<>> /\ LastCall.query = "show logs")
         => /\ LastCall.intent.category = "system"
            /\ LastCall.intent.action = "logs"
            /\ route = ToolRoute("linux", "get_journal_logs")

\* The indices of the table's entries of category c.
EntriesOf(c) == {i \in DOMAIN PATTERNS : PATTERNS[i].category = c}

\* C23: the atomic desktop entries are not shadowed by the file entries:
\* a query that an atomic entry matches is classified atomic, never file,
\* also where a file entry matches it too.
AtomicNotShadowed ==
    calls # <<>>
      => LET f == Fold(Strip(LastCall.query)) IN
         (\E i \in EntriesOf("atomic") : Matches(i, f))
           => LastCall.intent.category = "atomic"

\* C23, the case: an atomic entry and a file entry both match the query,
\* and it has been classified atomic.
AtomicAndFileMatch ==
    /\ calls # <<>>
    /\ Hits(Strip(LastCall.query)) \cap EntriesOf("atomic") # {}
    /\ Hits(Strip(LastCall.query)) \cap EntriesOf("file") # {}
    /\ LastCall.intent.category = "atomic"

\* C24: gpu queries classify by the most specific entry: 'gpu stats' is
\* (gpu, stats, {}), 'show gpu vram' is (gpu, vram, {}), and a query that
\* names vram or temperature is never classified (gpu, stats).
GpuMostSpecific ==
    calls # <<>>
      => LET q == Fold(Strip(LastCall.query)) IN
         /\ LastCall.query = "gpu stats"
              => LastCall.intent =
                   [category |-> "gpu", action |-> "stats", params |-> [none |-> TRUE]]
         /\ LastCall.query = "show gpu vram"
              => LastCall.intent =
                   [category |-> "gpu", action |-> "vram", params |-> [none |-> TRUE]]
         /\ (Contains(q, "vram") \/ Contains(q, "temp"))
              => ~(LastCall.intent.category = "gpu" /\ LastCall.intent.action = "stats")

\* C24, the case: a query that names the gpu and vram has been classified
\* (gpu, vram).
GpuVramClassified ==
    /\ calls # <<>>
    /\ Contains(Fold(LastCall.query), "gpu")
    /\ Contains(Fold(LastCall.query), "vram")
    /\ LastCall.intent.category = "gpu"
    /\ LastCall.intent.action = "vram"

\* C25: a query 'read <p>' that no earlier entry matches is classified
\* (file, read) with the path parameter <p> stripped of surrounding
\* whitespace; classify('read /tmp/test.txt') is (file, read,
\* {path: '/tmp/test.txt'}).
ReadYieldsPath ==
    calls # <<>>
      => LET q == Strip(LastCall.query) IN
         (/\ StartsWith(Fold(q), "read ")
          /\ Len(q) > 5
          /\ \A i \in Hits(q) : PATTERNS[i].category \in {"file", "process"})
           => LastCall.intent =
                [category |-> "file", action |-> "read",
                 params |-> [path |-> Strip(SubSeq(q, 6, Len(q)))]]

\* C26: classify('what is 15 factorial') is None, should_use_llm is true for
\* it, and process_query takes the LLM route for it, which makes no tool
\* call.
FactorialGoesToLlm ==
    (calls # <<>> /\ LastCall.query = "what is 15 factorial")
      => /\ LastCall.intent = NoIntent
         /\ ShouldUseLlm(LastCall.query)
         /\ route = LlmRoute
         /\ wrote = [p \in Peers |-> <<>>]

\* C26, the case: 'what is 15 factorial' has been classified and routed.
FactorialClassified ==
    /\ calls # <<>>
    /\ LastCall.query = "what is 15 factorial"
    /\ route = LlmRoute

\* C27: matching ignores letter case and surrounding whitespace: classify
\* of a query, of the query in lower case and of the query with whitespace
\* put around it have the same category and action; and a query that holds
\* a matching phrase with further words before or after it is not matched
\* by the entry of that phrase.
CaseAndPaddingIgnored ==
    calls # <<>>
      => LET i == LastCall.intent
             lower == Classify(Fold(LastCall.query))
             padded == Classify("  " \o LastCall.query \o "\t ")
         IN /\ lower.category = i.category /\ lower.action = i.action
            /\ padded.category = i.category /\ padded.action = i.action
            /\ LastCall.query \in {"please show gpu vram", "show gpu vram now"}
                 => ~(i.category = "gpu" /\ i.action = "vram")

Categories ==
    {"file", "gpu", "git", "system", "atomic", "ublue", "process", "package",
     "network", "build"}

\* C29: every Intent classify returns has a category of the closed set
\* file, gpu, git, system, atomic, ublue, process, package, network, build.
CategoryInClosedSet ==
    \A i \in DOMAIN calls :
        calls[i].intent # NoIntent => calls[i].intent.category \in Categories

\* C29, the case: a query has been classified by the last entry of the
\* table, network.
NetworkClassified ==
    /\ calls # <<>>
    /\ LastCall.intent # NoIntent
    /\ LastCall.intent.category = "network"

\* The lines printed for line i of stdin.
PrintedFor(i) == SelectSeq(out, LAMBDA o : o.line = i)

\* C30: each bundled server answers a line that is not parseable JSON with
\* exactly one error response of code -32700, and goes on serving: a request
\* read after it is answered.
ParseErrorAnswered ==
    \A i \in DOMAIN served :
        served[i].kind = "garbage"
          => /\ Len(PrintedFor(i)) = 1
             /\ PrintedFor(i)[1].response.kind = "error"
             /\ PrintedFor(i)[1].response.code = -32700
             /\ serving # "crashed"
             /\ \A j \in DOMAIN served :
                   (j > i /\ served[j] = ObjectLine("tools/list", 1, "none"))
                     => /\ Len(PrintedFor(j)) = 1
                        /\ PrintedFor(j)[1].response = Result(1)

\* The methods the servers answer with a result.
ServedMethods == {"initialize", "tools/list", "tools/call"}

\* C31: each bundled server answers a request that carries an id and a
\* method other than initialize, tools/list and tools/call with exactly one
\* error response that carries that id and the code -32601.
UnknownMethodAnswered ==
    \A i \in DOMAIN served :
        (/\ served[i].kind = "object"
         /\ served[i].id # NoId
         /\ served[i].method \notin ServedMethods)
          => /\ Len(PrintedFor(i)) = 1
             /\ PrintedFor(i)[1].response = Error(-32601, served[i].id)

\* C32: the streams stay in lock-step: for each bundled server and every
\* sequence of JSON-RPC messages on its stdin, a message with an id is
\* answered by exactly one line with that id and a message without an id by
\* no line, so that the k-th line printed answers the k-th request.
LockStep ==
    \A i \in DOMAIN served :
        served[i].kind = "object"
          => IF served[i].id # NoId
               THEN /\ Len(PrintedFor(i)) = 1
                    /\ PrintedFor(i)[1].response.id = served[i].id
               ELSE PrintedFor(i) = <<>>

\* C34: each bundled server answers a tools/call that names a tool outside
\* its catalog with an error response, not with a result the client's
\* call_tool would return as content.
UnknownToolIsError ==
    \A i \in DOMAIN served :
        (/\ served[i].kind = "object"
         /\ served[i].id # NoId
         /\ served[i].method = "tools/call"
         /\ served[i].params = "unknown")
          => /\ Len(PrintedFor(i)) = 1
             /\ PrintedFor(i)[1].response.kind = "error"
             /\ PrintedFor(i)[1].response.id = served[i].id

\* C37: no query is classified ublue: process_query never reaches
\* _handle_ublue_intent and so never routes a call to the ublue peer.
NoQueryReachesUblue ==
    \A i \in DOMAIN calls :
        /\ calls[i].intent.category # "ublue"
        /\ route.peer # "ublue"

\* C37, the case: a query that names the image info, which only the ublue
\* peer serves, has been classified and routed, to the filesystem peer.
ImageInfoQueryRouted ==
    /\ calls # <<>>
    /\ LastCall.query = "show image info"
    /\ route = ToolRoute("filesystem", "read_file")

\* C36: every tool the router's handlers call on a bundled peer is one this
\* peer advertises in tools/list and executes: the peer answers the call
\* with a result, never with an unknown-tool or not-implemented error.
RouterToolsAreServed ==
    (entry = "router" /\ served # <<>>)
      => /\ \E i \in DOMAIN Catalog(server) : Catalog(server)[i] = route.tool
         /\ route.tool \in ToolMap(server)
         /\ out = <<[line |-> 1, response |-> Result(1)]>>

\* C36, the case: a call routed by _handle_ublue_intent has been answered
\* by the ublue peer.
UbluePeerAnswered ==
    /\ entry = "router"
    /\ intent.category = "ublue"
    /\ server = "ublue"
    /\ served # <<>>

\* A step in which the notification is written to the peer p.
Notifies(p) ==
    /\ Len(wrote'[p]) = Len(wrote[p]) + 1
    /\ wrote'[p][Len(wrote'[p])] = "initialized"

\* C33: sending a notification changes nothing but the outgoing stream:
\* _send_notification writes one line without an id to its peer, leaves
\* every request counter as it is, and reads no line.
NotificationOnlyWrites ==
    [][\A p \in Peers :
         Notifies(p)
           => /\ stdin'[p] = Append(stdin[p], [id |-> NoId, method |-> "initialized"])
              /\ \A o \in Peers \ {p} : stdin'[o] = stdin[o]
              /\ request_id' = request_id
              /\ sent' = sent
              /\ stdout' = stdout
              /\ tools' = tools
              /\ servers' = servers]_vars

\* C33, the case: the notification has been written to a peer, after the
\* initialize request and before tools/list.
NotificationSent ==
    \E p \in Peers :
        /\ wrote[p] = <<"initialize", "initialized">>
        /\ request_id[p] = 1

\* ---------------------------------------------------------------- C35
\* The call of the query in progress left _send_request before the line was
\* written: the peer is not registered, was never started or has exited.
RaisedBeforeWrite ==
    ret[MainThread].status \in {"unknown_server", "not_started", "broken_pipe"}

\* The query in progress has written its one tools/call line, to the peer of
\* its route, and has made no LLM request.
OneToolCallToRoutePeer ==
    /\ toolReqs = 1
    /\ llmReqs = 0
    /\ call[MainThread].peer = route.peer
    /\ call[MainThread].method = "tools/call"
    /\ \E n \in DOMAIN sent[route.peer] : sent[route.peer][n] = call[MainThread].rid

NoChildLeftBehind ==
    (entry = "cli" /\ phase = "done")
        => \A p \in Peers : spawned[p] > 0 => termReq[p]

\* ---------------------------------------------------------------- C39
\* C39: a tools/call that fails with the remote-tool error does not poison
\* its connection: the step that raises the error leaves the process, the
\* catalog, the registry and the request counter as they are; the next
\* tools/call on that peer is written with the next higher id; and when it
\* returns, it returns the content of the peer's result for that request.
RemoteErrorDoesNotPoison ==
    [][LET m == MainThread
           p == call[MainThread].peer
       IN
       /\ (phase = "query" /\ pc[m] = "sr_read" /\ pc'[m] = "sr_done"
              /\ ret'[m].status = "mcp_error")
            => (process' = process /\ tools' = tools /\ servers' = servers
                  /\ request_id' = request_id)
       /\ (phase = "query" /\ p \in failed /\ pc[m] = "sr_write"
              /\ pc'[m] = "sr_read")
            => (/\ sent[p] # <<>>
                /\ call[m].rid = sent[p][Len(sent[p])] + 1
                /\ sent'[p] = Append(sent[p], call[m].rid))
       /\ (phase = "query" /\ p \in failed /\ pc[m] = "sr_read"
              /\ pc'[m] = "sr_done" /\ ret'[m].status = "ok")
            => \E i \in DOMAIN stdout[p] :
                 /\ stdout[p][i].id = call[m].rid
                 /\ stdout[p][i].kind = "result"
                 /\ stdout[p][i].of = "tools/call"
                 /\ CallToolReturn(ret'[m]) = stdout[p][i].content
      ]_vars

\* ---------------------------------------------------------------- C40
\* C40: in the interactive shell a query that raises does not end the
\* session: the loop goes on to read the next input; and the loop is left
\* only into agent.shutdown(), from the prompt (/exit, end of input) or from
\* a failed initialize, and shutdown, once begun, is never begun again.
ShellSurvivesFailingQuery ==
    [][entry = "shell" =>
         /\ (phase = "query_done" /\ phase' # phase)
               => (phase' = "serve" /\ pc'[MainThread] = "idle" /\ nq' = nq)
         /\ (phase \in {"serve", "init_failed"}
                /\ phase' \notin {phase, "query", "query_done"})
               => phase' = "shutdown"
         /\ (phase # "shutdown" /\ phase' = "shutdown")
               => phase \in {"serve", "init_failed"}
         /\ (phase = "shutdown") => phase' \in {"shutdown", "done"}
         /\ (phase = "done") => phase' = "done"
         /\ (phase' = "done") => phase \in {"shutdown", "done"}
      ]_vars

\* The shell reads and runs a second query after one whose tool call raised
\* because the peer had disconnected.
ShellWentOnAfterFailure ==
    /\ entry = "shell"
    /\ phase = "query" /\ nq = 2
    /\ lost # {}

====
